---- MODULE Spec2Model ----
(***************************************************************************)
(* A model of the cost tracker: the cost calculator (cost-calculator.ts),  *)
(* the date helpers (utils) and the cost source store (useCostStore, a     *)
(* zustand store wrapped in the persist middleware).                       *)
(*                                                                         *)
(* Representation.                                                         *)
(*   money      an integer number of thousandths of a currency unit; the   *)
(*              arithmetic is exact (IEEE-754 rounding noise is not        *)
(*              modelled), roundCost rounds to hundredths, half up.        *)
(*   Date       an instant, in hours since 1970-01-01T00:00Z.              *)
(*   date text  a date-only ISO string "YYYY-MM-DD" is <<y, m, d>>; an     *)
(*              absent optional field (undefined) is <<>>.                 *)
(*   id         generateId's string `${timestamp}-${random}` is the serial *)
(*              number of the generateId call: two calls are taken never   *)
(*              to return the same string.                                 *)
(*   null       <<>>, a value x that may be null is <<x>>.                 *)
(***************************************************************************)
EXTENDS Integers, Sequences, FiniteSets, TLC

VARIABLES
  sources,            \* CostStoreState.sources
  selectedSourceIds,  \* CostStoreState.selectedSourceIds
  defaultCurrency,    \* CostStoreState.defaultCurrency
  costSummary,        \* CostStoreState.costSummary (null is <<>>)
  persisted,          \* localStorage item 'cost-store' (absent is <<>>)
  nextId,             \* serial of the next generateId call
  clock,              \* how often the wall clock has been advanced
  tz,                 \* the host's offset from UTC, in hours
  lastOp,             \* the store call that has just completed
  calls,              \* how many store calls have been made
  exported,           \* the snapshot taken by exportSources (none is <<>>)
  localStorage,       \* the other items of localStorage, by key (absent is <<>>)
  storageFault,       \* how localStorage fails at present, "none" if it works
  providerConfig,     \* ProviderConfigState of useProviderConfig
  requests,           \* the provider calls made so far, in the order of their start
  fanout,             \* the latest call of fetchAllProvidersUsage
  registry,           \* ProviderRegistry: providers, instances, defaultProvider
  usageData           \* UsageDataState of useUsageData, with its cacheRef

vars == <<sources, selectedSourceIds, defaultCurrency, costSummary, persisted,
          nextId, clock, tz, lastOp, calls, exported, localStorage, storageFault,
          providerConfig, requests, fanout, registry, usageData>>

\* The state that no operation of the cost store changes.
outsideStore == <<localStorage, storageFault, providerConfig, requests, fanout, registry, usageData>>

(***************************************************************************)
(* Bounds of the model.                                                    *)
(***************************************************************************)
MaxSources == 2
MaxIds == 3
MaxClock == 1
MaxCalls == 3

(***************************************************************************)
(* Generic helpers.                                                        *)
(***************************************************************************)
Null == <<>>

Some(x) == <<x>>

RECURSIVE SumSeq(_)
SumSeq(s) == IF s = <<>> THEN 0 ELSE Head(s) + SumSeq(Tail(s))

Range(s) == {s[i] : i \in DOMAIN s}

\* { ...a, ...b }: the fields of b override those of a.
Spread(a, b) ==
  [k \in DOMAIN a \cup DOMAIN b |-> IF k \in DOMAIN b THEN b[k] ELSE a[k]]

(***************************************************************************)
(* Date helpers.                                                           *)
(***************************************************************************)
\* Days from 1970-01-01 to the civil date y-m-d (m in 1..12), as Date.UTC
\* counts them: yy is the year that starts in March, doy the day in it.
DayOfEra(yoe, doy) == yoe * 365 + yoe \div 4 - yoe \div 100 + doy

DayNumberFrom(yy, doy) ==
  (yy \div 400) * 146097 + DayOfEra(yy - (yy \div 400) * 400, doy) - 719468

DayNumber(y, m, d) ==
  DayNumberFrom(IF m <= 2 THEN y - 1 ELSE y,
                (153 * ((m + 9) % 12) + 2) \div 5 + d - 1)

\* The civil date of day number n, [year, month (1..12), day].
CivilOf(n) ==
  LET z == n + 719468
      era == z \div 146097
      doe == z - era * 146097
      yoe == (doe - doe \div 1460 + doe \div 36524 - doe \div 146096) \div 365
      doy == doe - (365 * yoe + yoe \div 4 - yoe \div 100)
      mp == (5 * doy + 2) \div 153
      d == doy - (153 * mp + 2) \div 5 + 1
      m == IF mp < 10 THEN mp + 3 ELSE mp - 9
      y == yoe + era * 400
  IN [year |-> IF m <= 2 THEN y + 1 ELSE y, month |-> m, day |-> d]

\* CivilOf, tabulated over the days the model's dates lie in.
CivilTable ==
  [n \in DayNumber(2023, 1, 1)..DayNumber(2026, 12, 31) |-> CivilOf(n)]

CivilDate(n) == CivilTable[n]

\* new Date(year, monthIndex, day): local midnight; monthIndex (0-based) and
\* day may lie outside their ranges and are carried over.
NewDate(year, monthIndex, day, zone) ==
  LET mi == year * 12 + monthIndex
  IN (DayNumber(mi \div 12, (mi % 12) + 1, 1) + (day - 1)) * 24 - zone

\* Date.prototype.getFullYear / getMonth (0-based), in local time.
getFullYear(date, zone) == CivilDate((date + zone) \div 24).year

getMonth(date, zone) == CivilDate((date + zone) \div 24).month - 1

\* new Date(): the wall clock. It starts at 2024-12-31T20:00Z and each
\* advance moves it 31 days on.
Now == DayNumber(2024, 12, 31) * 24 + 20 + clock * (31 * 24)

\* parseDate: an empty string gives the current time, a date-only ISO
\* string is read as midnight UTC.
parseDate(dateStr, nowT) ==
  IF dateStr = <<>> THEN nowT
  ELSE DayNumber(dateStr[1], dateStr[2], dateStr[3]) * 24

\* parseDate throws `Invalid date string` for a non-empty string new Date
\* cannot read: such a string is a tuple that is not <<y, m, d>>.
parseDateThrows(dateStr) == dateStr /= <<>> /\ Len(dateStr) /= 3

getFirstDayOfMonth(date, zone) ==
  NewDate(getFullYear(date, zone), getMonth(date, zone), 1, zone)

getLastDayOfMonth(date, zone) ==
  NewDate(getFullYear(date, zone), getMonth(date, zone) + 1, 0, zone)

(***************************************************************************)
(* CostCalculator.                                                         *)
(***************************************************************************)
DAYS_IN_MONTH == 30

DAYS_IN_YEAR == 365

TrendMonths == 6

\* roundCost of the value num/den (in thousandths): Math.round(value * 100)
\* / 100, that is floor(hundredths + 1/2), again in thousandths.
roundCost(num, den) == 10 * ((2 * num + 10 * den) \div (20 * den))

normalizeToDaily(cost, mode) ==
  CASE mode = "daily" -> cost
    [] mode = "monthly" -> roundCost(cost, DAYS_IN_MONTH)
    [] mode = "yearly" -> roundCost(cost, DAYS_IN_YEAR)
    [] mode = "one-time" -> cost
    [] OTHER -> cost

normalizeToMonthly(cost, mode) ==
  roundCost(normalizeToDaily(cost, mode) * DAYS_IN_MONTH, 1)

normalizeToYearly(cost, mode) ==
  roundCost(normalizeToDaily(cost, mode) * DAYS_IN_YEAR, 1)

\* Array.prototype.map.
MapSeq(s, Op(_)) == [i \in DOMAIN s |-> Op(s[i])]

\* The body of the forEach over the sources: what one source adds to the
\* month that runs from monthStart to monthEnd.
MonthPart(source, monthStart, monthEnd, nowT) ==
  IF /\ (source.startDate = <<>> \/ monthEnd >= parseDate(source.startDate, nowT))
     /\ (source.endDate = <<>> \/ monthStart <= parseDate(source.endDate, nowT))
  THEN normalizeToMonthly(source.cost, source.billingMode)
  ELSE 0

MonthCost(srcs, monthStart, monthEnd, nowT) ==
  SumSeq([k \in DOMAIN srcs |-> MonthPart(srcs[k], monthStart, monthEnd, nowT)])

\* The body of the loop over the months, for the month date lies in.
TrendEntry(srcs, date, nowT, zone) ==
  [month |-> <<getFullYear(date, zone), getMonth(date, zone) + 1>>,
   cost |-> roundCost(MonthCost(srcs, getFirstDayOfMonth(date, zone),
                                getLastDayOfMonth(date, zone), nowT), 1)]

calculateMonthlyTrend(srcs, months, nowT, zone) ==
  [k \in 1..months |->
     TrendEntry(srcs,
                NewDate(getFullYear(nowT, zone), getMonth(nowT, zone) - (months - k),
                        1, zone),
                nowT, zone)]

\* calculateMonthlyTrend throws when a parseDate call of its loop does: both
\* dates of every source are parsed, in every month of the window.
calculateMonthlyTrendThrows(srcs, months) ==
  /\ months >= 1
  /\ \E k \in DOMAIN srcs :
       parseDateThrows(srcs[k].startDate) \/ parseDateThrows(srcs[k].endDate)

\* source.provider || 'custom'
ProviderKey(source) ==
  IF source.provider = <<>> \/ source.provider = <<"">> THEN "custom"
  ELSE source.provider[1]

DailyOf(s) == normalizeToDaily(s.cost, s.billingMode)

\* costByProvider and costByType are object literals {}: a key that names a
\* member of Object.prototype reads as that member before it is first
\* written.
ObjectPrototypeKeys ==
  {"constructor", "toString", "toLocaleString", "valueOf", "hasOwnProperty",
   "isPrototypeOf", "propertyIsEnumerable", "__proto__"}

\* The keys the loop leaves on the object: assigning a string to __proto__
\* is ignored.
OwnKeys(keys) == keys \ {"__proto__"}

\* obj[key] = (obj[key] || 0) + dailyCost over the daily costs of the key's
\* members: their sum, or, when obj[key] first reads as an inherited member
\* (truthy, no number), the text of that member followed by the texts of
\* the costs, here the tuple of the key and the costs.
GroupCost(key, dailyCosts) ==
  IF key \in ObjectPrototypeKeys THEN <<key>> \o dailyCosts
  ELSE SumSeq(dailyCosts)

\* The summary, given the enabled sources and the sum of their daily costs.
SummaryOf(srcs, enabled, totalDaily, nowT, zone) ==
  [totalDailyCost |-> roundCost(totalDaily, 1),
   totalMonthlyCost |-> roundCost(totalDaily * DAYS_IN_MONTH, 1),
   totalYearlyCost |-> roundCost(totalDaily * DAYS_IN_YEAR, 1),
   enabledSourcesCount |-> Len(enabled),
   totalSourcesCount |-> Len(srcs),
   costByProvider |->
     [p \in OwnKeys({ProviderKey(s) : s \in Range(enabled)}) |->
        GroupCost(p, MapSeq(SelectSeq(enabled, LAMBDA s : ProviderKey(s) = p),
                            DailyOf))],
   costByType |->
     [t \in OwnKeys({s.type : s \in Range(enabled)}) |->
        GroupCost(t, MapSeq(SelectSeq(enabled, LAMBDA s : s.type = t), DailyOf))],
   monthlyTrend |-> calculateMonthlyTrend(enabled, TrendMonths, nowT, zone)]

\* The filter of calculateSummary left out: every source counts as enabled.
EnabledOf_all(srcs) == srcs

EnabledOf(srcs) == SelectSeq(srcs, LAMBDA s : s.isEnabled)

\* calculateSummary that also drops the sources whose endDate has passed.
calculateSummary_activeNow(srcs, nowT, zone) ==
  SummaryOf(srcs,
            SelectSeq(srcs, LAMBDA s : s.isEnabled /\ (s.endDate = <<>> \/
                                         parseDate(s.endDate, nowT) >= nowT)),
            SumSeq(MapSeq(SelectSeq(srcs, LAMBDA s : s.isEnabled /\ (s.endDate = <<>> \/
                                             parseDate(s.endDate, nowT) >= nowT)),
                          DailyOf)),
            nowT, zone)

\* calculateSummary whose monthly trend is computed over every source.
calculateSummary_trendOfAll(srcs, nowT, zone) ==
  Spread(SummaryOf(srcs, EnabledOf(srcs), SumSeq(MapSeq(EnabledOf(srcs), DailyOf)),
                   nowT, zone),
         [monthlyTrend |-> calculateMonthlyTrend(srcs, TrendMonths, nowT, zone)])

calculateSummary(srcs, nowT, zone) ==
  SummaryOf(srcs, EnabledOf(srcs), SumSeq(MapSeq(EnabledOf(srcs), DailyOf)), nowT, zone)

\* calculateSummary throws when its calculateMonthlyTrend(enabled) does.
calculateSummaryThrows(srcs) == calculateMonthlyTrendThrows(EnabledOf(srcs), TrendMonths)

\* compareCosts summarizes both collections.
compareCostsThrows(currentSources, previousSources) ==
  calculateSummaryThrows(currentSources) \/ calculateSummaryThrows(previousSources)

\* calculateAmortizedCost parses startDate, and endDate when it is given.
calculateAmortizedCostThrows(startDate, endDate) ==
  parseDateThrows(startDate) \/ parseDateThrows(endDate)

\* filterByDateRange parses both ends of the range, then the date of every
\* item.
filterByDateRangeThrows(data, startDate, endDate) ==
  \/ parseDateThrows(startDate)
  \/ parseDateThrows(endDate)
  \/ \E k \in DOMAIN data : parseDateThrows(data[k].date)

(***************************************************************************)
(* localStorage and the storage helpers (utils, usage-api).  The text of   *)
(* an item is <<"json", v>>, the JSON text of the value v, or any other    *)
(* tuple, text that is no JSON; ls is the items by key, fault the way      *)
(* localStorage fails: "quota" (setItem throws) or "denied" (getItem and   *)
(* setItem throw).                                                         *)
(***************************************************************************)
StorageFaults == {"none", "quota", "denied"}

\* STORAGE_KEYS.CONFIG
CONFIG == <<"cost-tracker:config">>

USAGE_DATA_KEY == <<"usage-api:data">>

ProviderNames == {"openai", "opencode"}

\* `${USAGE_DATA_KEY}:${provider}`
UsageKey(provider) == USAGE_DATA_KEY \o <<provider>>

\* STORAGE_KEYS.USAGE
USAGE == <<"cost-tracker:usage">>

LAST_SYNC == <<"last-sync">>

StorageKeys ==
  {CONFIG, USAGE, LAST_SYNC, USAGE_DATA_KEY} \cup {UsageKey(p) : p \in ProviderNames}

JsonStringify(value) == <<"json", value>>

JsonParseThrows(text) == Len(text) /= 2 \/ text[1] /= "json"

JsonParse(text) == text[2]

safeJsonParse(jsonStr, fallback) ==
  IF jsonStr = <<>> THEN fallback
  ELSE IF JsonParseThrows(jsonStr) THEN fallback
  ELSE JsonParse(jsonStr)

safeJsonStringify(obj) == JsonStringify(obj)

getFromStorage(ls, fault, key, fallback) ==
  IF fault = "denied" THEN fallback
  ELSE IF ls[key] = Null \/ ls[key] = Some(<<>>) THEN fallback
  ELSE safeJsonParse(ls[key][1], fallback)

saveToStorage(ls, fault, key, value) ==
  IF fault /= "none" THEN ls
  ELSE [ls EXCEPT ![key] = Some(safeJsonStringify(value))]

\* saveUsageData: the provider's data is written under the provider's key,
\* then the data of all providers under USAGE_DATA_KEY; the first setItem
\* that throws ends it.
saveUsageData(ls, fault, provider, data) ==
  LET existing == getFromStorage(ls, fault, USAGE_DATA_KEY, <<>>)
      merged == [p \in DOMAIN existing \cup {provider} |->
                   IF p = provider THEN data ELSE existing[p]]
  IN IF fault /= "none" THEN ls
     ELSE [ls EXCEPT ![UsageKey(provider)] = Some(JsonStringify(data)),
                     ![USAGE_DATA_KEY] = Some(JsonStringify(merged))]

getUsageData(ls, fault, provider) ==
  IF fault = "denied" THEN <<>>
  ELSE IF ls[UsageKey(provider)] = Null \/ ls[UsageKey(provider)] = Some(<<>>) THEN <<>>
  ELSE IF JsonParseThrows(ls[UsageKey(provider)][1]) THEN <<>>
  ELSE JsonParse(ls[UsageKey(provider)][1])

(***************************************************************************)
(* Inputs of the store's operations.                                       *)
(***************************************************************************)
TimeZones == {-5, 0, 8}

Currencies == {"CNY", "USD"}

BillingModeArgs == {"yearly", "one-time"}

\* `${source.name} (副本)`: a name is the sequence of its pieces, and this
\* is the piece duplicateSource appends.
DuplicateMarker == " (copy)"

\* Omit<CostSource, 'id' | 'createdAt' | 'updatedAt'> values: positive costs
\* (one with more than two decimal places), parseable dates.
SourceInputs ==
  { [name |-> <<"gpt">>, type |-> "api", provider |-> <<"openai">>,
     billingMode |-> "monthly", cost |-> 300000, currency |-> "USD",
     startDate |-> <<>>, endDate |-> <<>>, isEnabled |-> TRUE,
     description |-> <<>>],
    [name |-> <<"misc">>, type |-> "subscription", provider |-> <<>>,
     billingMode |-> "daily", cost |-> 4, currency |-> "CNY",
     startDate |-> <<2024, 12, 31>>, endDate |-> <<>>, isEnabled |-> TRUE,
     description |-> <<"note">>],
    [name |-> <<"gpu">>, type |-> "hardware", provider |-> <<"">>,
     billingMode |-> "yearly", cost |-> 100000, currency |-> "CNY",
     startDate |-> <<2024, 8, 1>>, endDate |-> <<2025, 1, 1>>,
     isEnabled |-> FALSE, description |-> <<>>] }

\* A CostSource as importSources receives it: with an id and timestamps of
\* its own.
Incoming(source, id) ==
  Spread(source, [id |-> id, createdAt |-> 0, updatedAt |-> 0])

ImportInputs ==
  { <<>> } \cup
  { <<Incoming(s, 1)>> : s \in SourceInputs } \cup
  { <<Incoming(s, 1), Incoming(s, 1)>> : s \in SourceInputs }

(***************************************************************************)
(* useCostStore.  A handler is an operator from the store's state st (the  *)
(* fields of CostStoreState, the persisted item, the id serial, and the    *)
(* call's return value and counters) to the state it leaves.               *)
(***************************************************************************)
\* persist option partialize.
partialize(st) == [sources |-> st.sources, defaultCurrency |-> st.defaultCurrency]

\* The set handed to the store's creator by persist: zustand's set (a
\* shallow merge), then setItem of the partialized state.
\* A statement that follows a throw does not run; a setItem that throws
\* (the storage is full or denied) leaves set after the merge.
set(st, partial) ==
  LET merged == Spread(st, partial)
  IN IF st.thrown THEN st
     ELSE IF st.fault /= "none" THEN [merged EXCEPT !.thrown = TRUE]
     ELSE [merged EXCEPT !.persisted = Some(partialize(merged)), !.writes = @ + 1]

\* An exception of calculateSummary leaves the handler before its set.
recalculateSummary(st, nowT, zone) ==
  IF st.thrown THEN st
  ELSE IF calculateSummaryThrows(st.sources) THEN [st EXCEPT !.thrown = TRUE]
  ELSE set([st EXCEPT !.recomputes = @ + 1],
           [costSummary |-> Some(calculateSummary(st.sources, nowT, zone))])

\* get().sources.find((s) => s.id === id): the first match, or undefined.
getSourceById(st, id) ==
  LET hits == SelectSeq(st.sources, LAMBDA s : s.id = id)
  IN IF hits = <<>> THEN <<>> ELSE Some(Head(hits))

getEnabledSources(st) == SelectSeq(st.sources, LAMBDA s : s.isEnabled)

addSource(st, source, nowT, zone) ==
  LET id == st.nextId
      st1 == [st EXCEPT !.nextId = @ + 1]
      record == Spread(source, [id |-> id, createdAt |-> nowT, updatedAt |-> nowT])
      st2 == set(st1, [sources |-> Append(st1.sources, record)])
      st3 == recalculateSummary(st2, nowT, zone)
  IN IF st3.thrown THEN st3 ELSE [st3 EXCEPT !.ret = Some(id)]

\* updateSource with the recompute run before the collection is replaced.
updateSource_recomputeFirst(st, id, updates, nowT, zone) ==
  LET Upd(source) ==
        IF source.id = id
        THEN Spread(Spread(source, updates), [updatedAt |-> nowT])
        ELSE source
  IN set(recalculateSummary(st, nowT, zone), [sources |-> MapSeq(st.sources, Upd)])

updateSource(st, id, updates, nowT, zone) ==
  LET Upd(source) ==
        IF source.id = id
        THEN Spread(Spread(source, updates), [updatedAt |-> nowT])
        ELSE source
  IN recalculateSummary(set(st, [sources |-> MapSeq(st.sources, Upd)]), nowT, zone)

deleteSource(st, id, nowT, zone) ==
  recalculateSummary(
    set(st, [sources |-> SelectSeq(st.sources, LAMBDA s : s.id /= id),
             selectedSourceIds |-> st.selectedSourceIds \ {id}]),
    nowT, zone)

\* duplicateSource with isEnabled copied from the original.
duplicateSource_keepEnabled(st, id, nowT, zone) ==
  LET found == getSourceById(st, id)
      source == found[1]
  IN IF found = <<>> THEN [st EXCEPT !.ret = <<>>]
     ELSE addSource(st,
            [name |-> Append(source.name, DuplicateMarker),
             type |-> source.type, provider |-> source.provider,
             billingMode |-> source.billingMode, cost |-> source.cost,
             currency |-> source.currency, startDate |-> source.startDate,
             endDate |-> source.endDate, isEnabled |-> source.isEnabled,
             description |-> source.description],
            nowT, zone)

duplicateSource(st, id, nowT, zone) ==
  LET found == getSourceById(st, id)
      source == found[1]
  IN IF found = <<>> THEN [st EXCEPT !.ret = <<>>]
     ELSE addSource(st,
            [name |-> Append(source.name, DuplicateMarker),
             type |-> source.type, provider |-> source.provider,
             billingMode |-> source.billingMode, cost |-> source.cost,
             currency |-> source.currency, startDate |-> source.startDate,
             endDate |-> source.endDate, isEnabled |-> FALSE,
             description |-> source.description],
            nowT, zone)

\* toggleSourceSelection followed by a recompute, as the mutating handlers are.
toggleSourceSelection_recompute(st, id) ==
  recalculateSummary(
    set(st, [selectedSourceIds |->
               IF id \in st.selectedSourceIds THEN st.selectedSourceIds \ {id}
               ELSE st.selectedSourceIds \cup {id}]),
    Now, tz)

toggleSourceSelection(st, id) ==
  set(st, [selectedSourceIds |->
             IF id \in st.selectedSourceIds THEN st.selectedSourceIds \ {id}
             ELSE st.selectedSourceIds \cup {id}])

selectAll(st) == set(st, [selectedSourceIds |-> {s.id : s \in Range(st.sources)}])

deselectAll(st) == set(st, [selectedSourceIds |-> {}])

setSelectedSources(st, ids) == set(st, [selectedSourceIds |-> ids])

setDefaultCurrency(st, currency, nowT, zone) ==
  recalculateSummary(set(st, [defaultCurrency |-> currency]), nowT, zone)

bulkUpdateBillingMode(st, ids, mode, nowT, zone) ==
  LET Upd(source) ==
        IF source.id \in ids
        THEN Spread(source, [billingMode |-> mode, updatedAt |-> nowT])
        ELSE source
  IN recalculateSummary(set(st, [sources |-> MapSeq(st.sources, Upd)]), nowT, zone)

bulkDelete(st, ids, nowT, zone) ==
  recalculateSummary(
    set(st, [sources |-> SelectSeq(st.sources, LAMBDA s : s.id \notin ids),
             selectedSourceIds |-> st.selectedSourceIds \ ids]),
    nowT, zone)

bulkEnable(st, ids, nowT, zone) ==
  LET Upd(source) ==
        IF source.id \in ids
        THEN Spread(source, [isEnabled |-> TRUE, updatedAt |-> nowT])
        ELSE source
  IN recalculateSummary(set(st, [sources |-> MapSeq(st.sources, Upd)]), nowT, zone)

bulkDisable(st, ids, nowT, zone) ==
  LET Upd(source) ==
        IF source.id \in ids
        THEN Spread(source, [isEnabled |-> FALSE, updatedAt |-> nowT])
        ELSE source
  IN recalculateSummary(set(st, [sources |-> MapSeq(st.sources, Upd)]), nowT, zone)

\* importSources that stores and recomputes once per incoming record.
RECURSIVE importSources_perRecord(_, _, _, _)
importSources_perRecord(st, incoming, nowT, zone) ==
  IF incoming = <<>> THEN st
  ELSE importSources_perRecord(
         [addSource(st, Head(incoming), nowT, zone) EXCEPT !.ret = <<>>],
         Tail(incoming), nowT, zone)

\* importSources that keeps the id an incoming record brings.
importSources_keepIds(st, incoming, nowT, zone) ==
  LET newSources ==
        [i \in DOMAIN incoming |->
           Spread(incoming[i], [createdAt |-> nowT, updatedAt |-> nowT])]
      st1 == [st EXCEPT !.nextId = @ + Len(incoming)]
  IN recalculateSummary(set(st1, [sources |-> st1.sources \o newSources]), nowT, zone)

importSources(st, incoming, nowT, zone) ==
  LET newSources ==
        [i \in DOMAIN incoming |->
           Spread(incoming[i],
                  [id |-> st.nextId + i - 1, createdAt |-> nowT, updatedAt |-> nowT])]
      st1 == [st EXCEPT !.nextId = @ + Len(incoming)]
  IN recalculateSummary(set(st1, [sources |-> st1.sources \o newSources]), nowT, zone)

exportSources(st) == st.sources

\* reset that leaves the selection set as it is.
reset_keepSelection(st) ==
  set(st, [sources |-> <<>>, defaultCurrency |-> "CNY", costSummary |-> Null])

reset(st) ==
  set(st, [sources |-> <<>>, selectedSourceIds |-> {},
           defaultCurrency |-> "CNY", costSummary |-> Null])

(***************************************************************************)
(* The state machine.                                                      *)
(***************************************************************************)
\* The store's state at the start of a call.
Begin ==
  [sources |-> sources, selectedSourceIds |-> selectedSourceIds,
   defaultCurrency |-> defaultCurrency, costSummary |-> costSummary,
   persisted |-> persisted, nextId |-> nextId,
   ret |-> <<>>, writes |-> 0, recomputes |-> 0, thrown |-> FALSE,
   fault |-> storageFault]

\* The call op, made with the ids arg, of which one was (hit) or none was in
\* the collection, ends and leaves st.
Commit(op, arg, hit, st) ==
  /\ calls < MaxCalls
  /\ \E s \in {st} :
    /\ calls' = calls + 1
    /\ sources' = s.sources
    /\ selectedSourceIds' = s.selectedSourceIds
    /\ defaultCurrency' = s.defaultCurrency
    /\ costSummary' = s.costSummary
    /\ persisted' = s.persisted
    /\ nextId' = s.nextId
    /\ lastOp' = [op |-> op, arg |-> arg, hit |-> hit, ret |-> s.ret,
                  writes |-> s.writes, recomputes |-> s.recomputes,
                  thrown |-> s.thrown]
    /\ UNCHANGED <<clock, tz, exported>>
    /\ UNCHANGED outsideStore

Ids == {s.id : s \in Range(sources)}

\* The ids a caller may pass: every id handed out so far, and 0, an id
\* generateId never returns.
IdArgs == 0..(nextId - 1)

\* Partial<CostSource> values.
UpdateInputs ==
  { [cost |-> 1005], [isEnabled |-> FALSE, name |-> <<"renamed">>] }
  \cup { [id |-> i] : i \in Ids \cup {0} }

Init ==
  /\ sources = <<>>
  /\ selectedSourceIds = {}
  /\ defaultCurrency = "CNY"
  /\ costSummary = Null
  /\ persisted = Null
  /\ nextId = 1
  /\ clock = 0
  /\ tz \in TimeZones
  /\ lastOp = [op |-> "create", arg |-> {}, hit |-> FALSE, ret |-> <<>>,
               writes |-> 0, recomputes |-> 0, thrown |-> FALSE]
  /\ calls = 0
  /\ exported = Null
  /\ localStorage = [key \in StorageKeys |-> Null]
  /\ storageFault = "none"
  /\ providerConfig = [configs |-> <<>>, activeProvider |-> Null,
                       loading |-> FALSE, error |-> Null]
  /\ requests = <<>>
  /\ fanout = [configs |-> <<>>, requestOf |-> <<>>, results |-> <<>>,
               returned |-> TRUE]
  /\ registry = [providers |-> <<>>, instances |-> {}, defaultProvider |-> Null]
  /\ usageData = [data |-> <<>>, loading |-> FALSE, error |-> Null,
                  lastUpdated |-> Null, cacheHit |-> FALSE, cache |-> <<>>]

AddSource ==
  \E source \in SourceInputs :
    /\ Len(sources) < MaxSources
    /\ nextId <= MaxIds
    /\ Commit("addSource", {}, TRUE, addSource(Begin, source, Now, tz))

UpdateSource ==
  \E id \in IdArgs, updates \in UpdateInputs :
    Commit("updateSource", {id}, id \in Ids, updateSource(Begin, id, updates, Now, tz))

DeleteSource ==
  \E id \in IdArgs :
    Commit("deleteSource", {id}, id \in Ids, deleteSource(Begin, id, Now, tz))

DuplicateSource ==
  \E id \in IdArgs :
    /\ id \in Ids => Len(sources) < MaxSources /\ nextId <= MaxIds
    /\ Commit("duplicateSource", {id}, id \in Ids, duplicateSource(Begin, id, Now, tz))

ToggleSourceSelection ==
  \E id \in IdArgs :
    Commit("toggleSourceSelection", {id}, id \in Ids, toggleSourceSelection(Begin, id))

SelectAll == Commit("selectAll", {}, TRUE, selectAll(Begin))

DeselectAll == Commit("deselectAll", {}, TRUE, deselectAll(Begin))

SetSelectedSources ==
  \E ids \in SUBSET IdArgs :
    Commit("setSelectedSources", ids, ids \subseteq Ids, setSelectedSources(Begin, ids))

SetDefaultCurrency ==
  \E currency \in Currencies :
    Commit("setDefaultCurrency", {}, TRUE, setDefaultCurrency(Begin, currency, Now, tz))

RecalculateSummary ==
  Commit("recalculateSummary", {}, TRUE, recalculateSummary(Begin, Now, tz))

BulkUpdateBillingMode ==
  \E ids \in SUBSET IdArgs, mode \in BillingModeArgs :
    Commit("bulkUpdateBillingMode", ids, ids \cap Ids /= {},
           bulkUpdateBillingMode(Begin, ids, mode, Now, tz))

BulkDelete ==
  \E ids \in SUBSET IdArgs :
    Commit("bulkDelete", ids, ids \cap Ids /= {}, bulkDelete(Begin, ids, Now, tz))

BulkEnable ==
  \E ids \in SUBSET IdArgs :
    Commit("bulkEnable", ids, ids \cap Ids /= {}, bulkEnable(Begin, ids, Now, tz))

BulkDisable ==
  \E ids \in SUBSET IdArgs :
    Commit("bulkDisable", ids, ids \cap Ids /= {}, bulkDisable(Begin, ids, Now, tz))

ImportSources ==
  \E incoming \in ImportInputs :
    /\ Len(sources) + Len(incoming) <= MaxSources
    /\ nextId + Len(incoming) - 1 <= MaxIds
    /\ Commit("importSources", {}, TRUE, importSources(Begin, incoming, Now, tz))

Reset == Commit("reset", {}, TRUE, reset(Begin))

\* Time passes between two calls.
Tick ==
  /\ clock < MaxClock
  /\ clock' = clock + 1
  /\ lastOp' = [op |-> "idle", arg |-> {}, hit |-> FALSE, ret |-> <<>>,
                writes |-> 0, recomputes |-> 0, thrown |-> FALSE]
  /\ UNCHANGED <<sources, selectedSourceIds, defaultCurrency, costSummary,
                 persisted, nextId, tz, calls, exported>>
  /\ UNCHANGED outsideStore

Next ==
  \/ AddSource
  \/ UpdateSource
  \/ DeleteSource
  \/ DuplicateSource
  \/ ToggleSourceSelection
  \/ SelectAll
  \/ DeselectAll
  \/ SetSelectedSources
  \/ SetDefaultCurrency
  \/ RecalculateSummary
  \/ BulkUpdateBillingMode
  \/ BulkDelete
  \/ BulkEnable
  \/ BulkDisable
  \/ ImportSources
  \/ Reset
  \/ Tick

Spec == Init /\ [][Next]_vars

(***************************************************************************)
(* The export / import round trip: a store is filled, exportSources takes  *)
(* a snapshot of it, and a newly created store imports the snapshot.       *)
(***************************************************************************)
ExportSources ==
  /\ exported = Null
  /\ exported' = Some(exportSources(Begin))
  /\ lastOp' = [op |-> "exportSources", arg |-> {}, hit |-> TRUE, ret |-> <<>>,
                writes |-> 0, recomputes |-> 0, thrown |-> FALSE]
  /\ UNCHANGED <<sources, selectedSourceIds, defaultCurrency, costSummary,
                 persisted, nextId, clock, tz, calls>>
  /\ UNCHANGED outsideStore

\* `create` runs again: a second store, with nothing persisted for it.
CreateStore ==
  /\ exported /= Null
  /\ calls > 0
  /\ lastOp.op /= "importSources"
  /\ sources' = <<>>
  /\ selectedSourceIds' = {}
  /\ defaultCurrency' = "CNY"
  /\ costSummary' = Null
  /\ persisted' = Null
  /\ calls' = 0
  /\ lastOp' = [op |-> "create", arg |-> {}, hit |-> FALSE, ret |-> <<>>,
                writes |-> 0, recomputes |-> 0, thrown |-> FALSE]
  /\ UNCHANGED <<nextId, clock, tz, exported>>
  /\ UNCHANGED outsideStore

\* The fresh store imports the snapshot.
ImportExported ==
  /\ exported /= Null
  /\ calls = 0
  /\ Commit("importSources", {}, TRUE, importSources(Begin, exported[1], Now, tz))

Fill ==
  /\ exported = Null
  /\ \/ AddSource
     \/ UpdateSource
     \/ DeleteSource
     \/ DuplicateSource
     \/ BulkUpdateBillingMode
     \/ BulkDelete
     \/ BulkEnable
     \/ BulkDisable
     \/ ImportSources

NextRoundTrip ==
  \/ Fill
  \/ ExportSources
  \/ CreateStore
  \/ ImportExported
  \/ Tick

SpecRoundTrip == Init /\ [][NextRoundTrip]_vars

(***************************************************************************)
(* CostSourceForm.  The text of a field is the sequence of its characters. *)
(***************************************************************************)
Digits == {"0", "1", "2", "3", "4", "5", "6", "7", "8", "9"}

DigitValue(c) ==
  CASE c = "0" -> 0 [] c = "1" -> 1 [] c = "2" -> 2 [] c = "3" -> 3
    [] c = "4" -> 4 [] c = "5" -> 5 [] c = "6" -> 6 [] c = "7" -> 7
    [] c = "8" -> 8 [] c = "9" -> 9

RECURSIVE trimStart(_)
trimStart(text) ==
  IF text /= <<>> /\ Head(text) = " " THEN trimStart(Tail(text)) ELSE text

RECURSIVE trimEnd(_)
trimEnd(text) ==
  IF text /= <<>> /\ text[Len(text)] = " "
  THEN trimEnd(SubSeq(text, 1, Len(text) - 1))
  ELSE text

\* String.prototype.trim
trim(text) == trimEnd(trimStart(text))

\* The longest prefix of text made of digits.
RECURSIVE LeadingDigits(_)
LeadingDigits(text) ==
  IF text /= <<>> /\ Head(text) \in Digits
  THEN <<Head(text)>> \o LeadingDigits(Tail(text))
  ELSE <<>>

RECURSIVE DigitsValue(_)
DigitsValue(ds) ==
  IF ds = <<>> THEN 0 ELSE 10 * DigitsValue(SubSeq(ds, 1, Len(ds) - 1)) + DigitValue(ds[Len(ds)])

\* parseFloat: leading blanks are skipped, then a sign, digits and a
\* fraction are read and what follows is ignored; NaN (here <<>>) when no
\* digit was read.  The number is [negative, whole, frac], frac being the
\* thousandths of its fraction (further decimals are dropped; exponents
\* are not read).
parseFloat(text) ==
  LET s == trimStart(text)
      signed == s /= <<>> /\ Head(s) \in {"-", "+"}
      body == IF signed THEN Tail(s) ELSE s
      whole == LeadingDigits(body)
      rest == SubSeq(body, Len(whole) + 1, Len(body))
      decimals == IF rest /= <<>> /\ Head(rest) = "."
                  THEN LeadingDigits(Tail(rest)) ELSE <<>>
      padded == SubSeq(decimals \o <<"0", "0", "0">>, 1, 3)
  IN IF whole = <<>> /\ decimals = <<>> THEN <<>>
     ELSE <<[negative |-> signed /\ Head(s) = "-",
             whole |-> DigitsValue(whole),
             frac |-> DigitsValue(padded)]>>

isNaN(number) == number = <<>>

\* number <= 0
NotPositive(number) ==
  number[1].negative \/ (number[1].whole = 0 /\ number[1].frac = 0)

\* number > limit, limit a whole number
Above(number, limit) ==
  /\ ~number[1].negative
  /\ number[1].whole > limit \/ (number[1].whole = limit /\ number[1].frac > 0)

\* The number in thousandths, as the store's costs are.
Thousandths(number) ==
  (IF number[1].negative THEN -1 ELSE 1) * (number[1].whole * 1000 + number[1].frac)

\* startDate > endDate on date-only ISO strings: the order of the strings
\* is the order of <<y, m, d>>.
DateTextAfter(a, b) ==
  \/ a[1] > b[1]
  \/ a[1] = b[1] /\ a[2] > b[2]
  \/ a[1] = b[1] /\ a[2] = b[2] /\ a[3] > b[3]

MaxNameLength == 100

MaxCost == 9999999

\* validate: the fields found in error (newErrors); the form may be
\* submitted when there is none.
validate_zeroCostAccepted(form) ==
  (IF trim(form.name) = <<>> \/ Len(form.name) > MaxNameLength THEN {"name"} ELSE {})
  \cup
  (IF trim(form.cost) = <<>> THEN {"cost"}
   ELSE IF isNaN(parseFloat(form.cost)) THEN {"cost"}
   ELSE IF Above(parseFloat(form.cost), MaxCost) THEN {"cost"}
   ELSE {})
  \cup
  (IF /\ form.startDate /= <<>>
      /\ form.endDate /= <<>>
      /\ DateTextAfter(form.startDate, form.endDate) THEN {"endDate"} ELSE {})

validate(form) ==
  (IF trim(form.name) = <<>> \/ Len(form.name) > MaxNameLength THEN {"name"} ELSE {})
  \cup
  (IF trim(form.cost) = <<>> THEN {"cost"}
   ELSE IF isNaN(parseFloat(form.cost)) THEN {"cost"}
   ELSE IF NotPositive(parseFloat(form.cost)) THEN {"cost"}
   ELSE IF Above(parseFloat(form.cost), MaxCost) THEN {"cost"}
   ELSE {})
  \cup
  (IF /\ form.startDate /= <<>>
      /\ form.endDate /= <<>>
      /\ DateTextAfter(form.startDate, form.endDate) THEN {"endDate"} ELSE {})

\* `text || undefined`
OrUndefined(text) == IF text = <<>> THEN <<>> ELSE <<text>>

\* The sourceData handleSubmit builds from the fields.
SourceData(form) ==
  [name |-> trim(form.name), type |-> form.type,
   provider |-> OrUndefined(trim(form.provider)),
   billingMode |-> form.billingMode,
   cost |-> IF isNaN(parseFloat(form.cost)) THEN 0 ELSE Thousandths(parseFloat(form.cost)),
   currency |-> form.currency, startDate |-> form.startDate,
   endDate |-> form.endDate,
   description |-> OrUndefined(trim(form.description)),
   isEnabled |-> form.isEnabled]

\* handleSubmit of a form opened on the record source (<<>> when it adds):
\* an exception of the store's call is caught and logged.
handleSubmit(st, form, source, nowT, zone) ==
  IF validate(form) /= {} THEN st
  ELSE [(IF source /= <<>>
         THEN updateSource(st, source[1].id, SourceData(form), nowT, zone)
         ELSE addSource(st, SourceData(form), nowT, zone))
        EXCEPT !.thrown = FALSE, !.ret = <<>>]

LongName == [i \in 1..(MaxNameLength + 1) |-> "x"]

NameTexts == { <<>>, <<" ", " ">>, <<" ", "a", "b", " ">>, LongName }

\* Texts of the cost field: nothing, blanks, text that is no number, and
\* numerals (zero, negative, in range, with a fraction, above MaxCost).
CostTexts ==
  { <<>>, <<" ">>, <<"a", "b", "c">>, <<"0">>, <<"-", "5">>, <<"3", "0", "0">>,
    <<"9", "9", "9", "9", "9", "9", "9", ".", "5">> }

DateRanges ==
  { <<<<>>, <<>>>>, <<<<2024, 8, 1>>, <<2024, 12, 31>>>>,
    <<<<2024, 12, 31>>, <<2024, 8, 1>>>> }

GoodName == <<" ", "a", "b", " ">>

GoodCost == <<"3", "0", "0">>

\* The fields of a form: one that passes validation, and those that differ
\* from it in the name, in the cost or in the dates.
FormFields ==
  { <<name, cost, range>> \in NameTexts \X CostTexts \X DateRanges :
      \/ name = GoodName /\ cost = GoodCost
      \/ name = GoodName /\ range = <<<<>>, <<>>>>
      \/ cost = GoodCost /\ range = <<<<>>, <<>>>> }

FormInputs ==
  { [name |-> f[1], cost |-> f[2], startDate |-> f[3][1], endDate |-> f[3][2],
     type |-> "subscription", provider |-> <<>>, billingMode |-> "monthly",
     currency |-> "CNY", description |-> <<>>, isEnabled |-> TRUE] :
    f \in FormFields }

\* The form is submitted: opened to add a record, or on a record of the
\* collection.
SubmitForm ==
  \E form \in FormInputs, source \in {<<>>} \cup {<<s>> : s \in Range(sources)} :
    /\ (validate(form) = {} /\ source = <<>>)
         => Len(sources) < MaxSources /\ nextId <= MaxIds
    /\ Commit("handleSubmit", form, validate(form) = {},
              handleSubmit(Begin, form, source, Now, tz))

(***************************************************************************)
(* Provider configs and their validation (validators).                     *)
(***************************************************************************)
LowerLetters ==
  {"a", "b", "c", "d", "e", "f", "g", "h", "i", "j", "k", "l", "m",
   "n", "o", "p", "q", "r", "s", "t", "u", "v", "w", "x", "y", "z"}

UpperLetters ==
  {"A", "B", "C", "D", "E", "F", "G", "H", "I", "J", "K", "L", "M",
   "N", "O", "P", "Q", "R", "S", "T", "U", "V", "W", "X", "Y", "Z"}

AlphaNumerics == LowerLetters \cup UpperLetters \cup Digits

Whitespace == {" ", "\t", "\n"}

\* text matches /^prefix[allowed]{atLeast,}$/
MatchesPrefixed(text, prefix, allowed, atLeast) ==
  /\ Len(text) >= Len(prefix) + atLeast
  /\ SubSeq(text, 1, Len(prefix)) = prefix
  /\ \A i \in (Len(prefix) + 1)..Len(text) : text[i] \in allowed

\* The rules are the names of those a key breaks.
OPENCODE_RULES(apiKey) ==
  (IF Len(apiKey) >= 8 THEN {} ELSE {"minLength"})
  \cup
  (IF apiKey /= <<>> /\ \A i \in DOMAIN apiKey : apiKey[i] \notin Whitespace
   THEN {} ELSE {"noWhitespace"})

OPENAI_RULES(apiKey) ==
  IF MatchesPrefixed(apiKey, <<"s", "k", "-">>, AlphaNumerics, 20)
  THEN {} ELSE {"startsWithSk"}

ANTHROPIC_RULES(apiKey) ==
  IF MatchesPrefixed(apiKey, <<"s", "k", "-", "a", "n", "t", "-">>,
                     AlphaNumerics \cup {"-"}, 30)
  THEN {} ELSE {"startsWithSkAnt"}

\* String.prototype.toLowerCase on the provider names in use.
toLowerCase(name) ==
  CASE name = "OpenAI" -> "openai"
    [] name = "OpenCode" -> "opencode"
    [] name = "Anthropic" -> "anthropic"
    [] OTHER -> name

\* getProviderValidationRules followed by validateApiKey: the errors of
\* apiKey under the rules of provider.
validateApiKey(apiKey, provider) ==
  CASE toLowerCase(provider) = "opencode" -> OPENCODE_RULES(apiKey)
    [] toLowerCase(provider) = "openai" -> OPENAI_RULES(apiKey)
    [] toLowerCase(provider) = "anthropic" -> ANTHROPIC_RULES(apiKey)
    [] OTHER -> OPENCODE_RULES(apiKey)

validateProviderConfig(config) ==
  LET errors ==
        (IF config.provider = "" THEN {"provider"} ELSE {})
        \cup
        (IF config.apiKey = <<>> THEN {"apiKey"}
         ELSE validateApiKey(config.apiKey, config.provider))
  IN [isValid |-> errors = {}, errors |-> errors]

(***************************************************************************)
(* Provider network calls.  A call is a record of requests: fn is the      *)
(* function that made the request and caller the operation awaiting it;    *)
(* phase is "headers" until the response arrives, "body" while the body of *)
(* an OK response is read, "done" when the call has returned ret; timer    *)
(* tells whether its timeout is armed; cause is what ended it, status the  *)
(* status of the response (0 while there is none) and ids the number of    *)
(* ids it had generated.                                                   *)
(***************************************************************************)
MaxRequests == 2

HttpStatuses == {200, 401, 429, 500}

Ok(status) == status >= 200 /\ status <= 299

NewRequest(fn, caller, arg) ==
  [fn |-> fn, caller |-> caller, arg |-> arg, phase |-> "headers",
   timer |-> TRUE, status |-> 0, cause |-> "", ret |-> <<>>, ids |-> 0]

\* The call r has returned value because of cause.
Returned(r, cause, value) ==
  [r EXCEPT !.phase = "done", !.timer = FALSE, !.cause = cause, !.ret = <<value>>]

\* testProviderConnection once fetch has resolved with status.
testProviderConnectionResponse(status) ==
  IF Ok(status) THEN [isValid |-> TRUE, message |-> "connected", errorCode |-> <<>>]
  ELSE IF status = 401
  THEN [isValid |-> FALSE, message |-> "invalid key", errorCode |-> <<"UNAUTHORIZED">>]
  ELSE IF status = 429
  THEN [isValid |-> FALSE, message |-> "too many requests",
        errorCode |-> <<"RATE_LIMITED">>]
  ELSE [isValid |-> FALSE, message |-> "connection failed",
        errorCode |-> <<"CONNECTION_FAILED">>]

\* testProviderConnection once fetch has rejected: errorName is
\* "TimeoutError" when AbortSignal.timeout aborted it.
testProviderConnectionCatch(errorName) ==
  [isValid |-> FALSE,
   message |-> IF errorName = "TimeoutError" THEN "timed out" ELSE "unreachable",
   errorCode |-> <<"NETWORK_ERROR">>]

(***************************************************************************)
(* usage-api: the body of a response is the record of the fields the       *)
(* fetch functions read in it; token counts are integers, costs are in     *)
(* thousandths.                                                            *)
(***************************************************************************)
\* new Date().toISOString().split('T')[0]
toISODate(nowT) ==
  <<CivilDate(nowT \div 24).year, CivilDate(nowT \div 24).month,
    CivilDate(nowT \div 24).day>>

UsageFailure(error) ==
  [success |-> FALSE, error |-> <<error>>, data |-> <<>>, totalUsage |-> <<>>]

\* A successful UsageResponse whose data is the one record of today.
UsageOfToday(nowT, inputTokens, outputTokens, cost, modelName) ==
  [success |-> TRUE, error |-> <<>>,
   data |-> <<[date |-> toISODate(nowT), inputTokens |-> inputTokens,
               outputTokens |-> outputTokens, cost |-> cost,
               modelName |-> modelName]>>,
   totalUsage |-> <<[inputTokens |-> inputTokens, outputTokens |-> outputTokens,
                     cost |-> cost]>>]

\* fetchMinimaxUsage from the parsed body on.
fetchMinimaxUsageBody(body, nowT) ==
  IF body.base_resp.status_code /= 0 THEN UsageFailure("api call failed")
  ELSE UsageOfToday(nowT,
                    ((body.quota.total_quota - body.quota.remain_quota) * 4) \div 10,
                    ((body.quota.total_quota - body.quota.remain_quota) * 6) \div 10,
                    body.quota.total_quota - body.quota.remain_quota,
                    "minimax-model")

\* fetchOpenAIUsage from the parsed body on: total_usage is in cents.
fetchOpenAIUsageBody(body, nowT) ==
  IF body.error THEN UsageFailure("api error")
  ELSE UsageOfToday(nowT, (body.total_usage * 10) \div 60,
                    (body.total_usage * 10) \div 30, body.total_usage * 10, "gpt-4")

\* fetchAnthropicUsage from the parsed body on.
fetchAnthropicUsageBody(body, nowT) ==
  UsageOfToday(nowT, body.usage.input_tokens, body.usage.output_tokens,
               body.usage.total_cost, "claude-3")

\* fetchGenericUsage once fetch has resolved with status, the response
\* having no x-ratelimit-remaining header.
fetchGenericUsageResponse(status) ==
  IF ~Ok(status) THEN UsageFailure("invalid config")
  ELSE [success |-> TRUE, error |-> <<>>, data |-> <<>>,
        totalUsage |-> <<[inputTokens |-> 0, outputTokens |-> 0, cost |-> 0]>>]

\* The catch block of the four fetch functions.
fetchUsageCatch(errorName) ==
  UsageFailure(IF errorName = "TimeoutError" THEN "timed out" ELSE "request failed")

\* The switch of fetchProviderUsage: the function that fetches the usage
\* of provider.
fetchProviderUsage(provider) ==
  CASE toLowerCase(provider) = "minimax" -> "fetchMinimaxUsage"
    [] toLowerCase(provider) = "openai" -> "fetchOpenAIUsage"
    [] toLowerCase(provider) = "anthropic" -> "fetchAnthropicUsage"
    [] OTHER -> "fetchGenericUsage"

\* The fetch functions that read the body of the response.
BodyReaders == {"fetchMinimaxUsage", "fetchOpenAIUsage", "fetchAnthropicUsage"}

(***************************************************************************)
(* OpenCodeProvider.  Its calls go through makeRequest, whose timer is     *)
(* cleared when fetch resolves.  fetchUsage and fetchModels resolve with a *)
(* list in the try and in the catch: rejected tells whether the promise    *)
(* was rejected.                                                           *)
(***************************************************************************)
OpenCodeCalls == {"fetchUsage", "fetchModels", "healthCheck"}

getMockModels ==
  << [modelId |-> "minimax-m2.1", modelName |-> "MiniMax-M2.1",
      provider |-> "opencode", inputPricePerMillion |-> 500,
      outputPricePerMillion |-> 1500, currency |-> "USD"],
     [modelId |-> "minimax-m2", modelName |-> "MiniMax-M2",
      provider |-> "opencode", inputPricePerMillion |-> 400,
      outputPricePerMillion |-> 1200, currency |-> "USD"] >>

\* calculateCost, in thousandths of a millionth of a dollar (prices are in
\* thousandths per million tokens).
calculateCost(inputTokens, outputTokens, modelId) ==
  IF \E k \in DOMAIN getMockModels : getMockModels[k].modelId = modelId
  THEN LET model == getMockModels[CHOOSE k \in DOMAIN getMockModels :
                                    getMockModels[k].modelId = modelId]
       IN inputTokens * model.inputPricePerMillion
            + outputTokens * model.outputPricePerMillion
  ELSE 0

\* getDaysBetween: the dates from start to end, both included.
getDaysBetween(start, end) ==
  [k \in 1..(DayNumber(end[1], end[2], end[3])
               - DayNumber(start[1], start[2], start[3]) + 1) |->
     toISODate((DayNumber(start[1], start[2], start[3]) + k - 1) * 24)]

\* The number of records of getMockUsageData(params).
MockRows(params) ==
  Len(getDaysBetween(params.startDate, params.endDate)) * Len(getMockModels)

\* getMockUsageData: a record per day and model; draws[k] holds the
\* values Math.random gives for the k-th record and id0 is the first id
\* generateId gives.
getMockUsageData(params, draws, id0) ==
  [k \in 1..MockRows(params) |->
     [id |-> id0 + k - 1,
      modelId |-> getMockModels[((k - 1) % Len(getMockModels)) + 1].modelId,
      modelName |-> getMockModels[((k - 1) % Len(getMockModels)) + 1].modelName,
      provider |-> "opencode",
      inputTokens |-> draws[k].inputTokens,
      outputTokens |-> draws[k].outputTokens,
      totalTokens |-> 0,
      cost |-> calculateCost(draws[k].costInputTokens, draws[k].costOutputTokens,
                             getMockModels[((k - 1) % Len(getMockModels)) + 1].modelId),
      currency |-> "USD",
      date |-> getDaysBetween(params.startDate, params.endDate)
                 [((k - 1) \div Len(getMockModels)) + 1]]]

\* The ids generateId gives to the records of rows that have none.
MissingIds(rows) == {k \in DOMAIN rows : rows[k].id = <<>>}

\* fetchUsage from the parsed body on (the try).
fetchUsageRows(body, id0) ==
  [k \in DOMAIN body.rows |->
     [id |-> IF body.rows[k].id = <<>>
             THEN id0 + Cardinality({j \in MissingIds(body.rows) : j < k})
             ELSE body.rows[k].id[1],
      modelId |-> body.rows[k].model_id,
      modelName |-> body.rows[k].model_name,
      provider |-> "opencode",
      inputTokens |-> body.rows[k].input_tokens,
      outputTokens |-> body.rows[k].output_tokens,
      totalTokens |-> body.rows[k].input_tokens + body.rows[k].output_tokens,
      cost |-> body.rows[k].cost,
      currency |-> IF body.rows[k].currency = "" THEN "USD" ELSE body.rows[k].currency,
      date |-> body.rows[k].date]]

\* fetchModels from the parsed body on (the try).
fetchModelsRows(body) ==
  [k \in DOMAIN body.models |->
     [modelId |-> body.models[k].id, modelName |-> body.models[k].name,
      provider |-> "opencode",
      inputPricePerMillion |-> body.models[k].input_price_per_million,
      outputPricePerMillion |-> body.models[k].output_price_per_million,
      currency |-> IF body.models[k].currency = "" THEN "USD"
                   ELSE body.models[k].currency]]

\* healthCheck from the parsed body on (the try).
healthCheckBody(body, nowT) ==
  [provider |-> "opencode",
   status |-> IF body.status = "ok" THEN "healthy" ELSE "degraded",
   latency |-> 0,
   message |-> IF body.status = "ok" THEN "service ok" ELSE "service degraded",
   checkedAt |-> nowT]

\* The call r of OpenCodeProvider after makeRequest has thrown (the
\* catch).
OpenCodeCatch(r, cause, draws, id0, nowT) ==
  CASE r.fn = "fetchUsage" ->
         [Returned(r, cause, [rejected |-> FALSE,
                              value |-> getMockUsageData(r.arg, draws, id0)])
          EXCEPT !.ids = MockRows(r.arg)]
    [] r.fn = "fetchModels" ->
         Returned(r, cause, [rejected |-> FALSE, value |-> getMockModels])
    [] r.fn = "healthCheck" ->
         Returned(r, cause, [provider |-> "opencode", status |-> "unhealthy",
                             latency |-> 0, message |-> cause, checkedAt |-> nowT])

\* What the call r returns when its request is answered with status, or
\* where it stands then.
OnResponse(r, status, draws, id0, nowT) ==
  CASE r.fn = "testProviderConnection" ->
         Returned([r EXCEPT !.status = status], "response",
                  testProviderConnectionResponse(status))
    [] r.fn = "fetchGenericUsage" ->
         Returned([r EXCEPT !.status = status], "response",
                  fetchGenericUsageResponse(status))
    [] r.fn \in BodyReaders ->
         IF ~Ok(status)
         THEN Returned([r EXCEPT !.status = status], "response",
                       UsageFailure("api error"))
         ELSE [r EXCEPT !.status = status, !.phase = "body"]
    [] r.fn \in OpenCodeCalls ->
         IF ~Ok(status)
         THEN OpenCodeCatch([r EXCEPT !.status = status], "response", draws, id0, nowT)
         ELSE [r EXCEPT !.status = status, !.phase = "body", !.timer = FALSE]

\* What the call r returns once the body of its response is read.
OnBody(r, body, id0, nowT) ==
  CASE r.fn = "fetchMinimaxUsage" ->
         Returned(r, "response", fetchMinimaxUsageBody(body, nowT))
    [] r.fn = "fetchOpenAIUsage" ->
         Returned(r, "response", fetchOpenAIUsageBody(body, nowT))
    [] r.fn = "fetchAnthropicUsage" ->
         Returned(r, "response", fetchAnthropicUsageBody(body, nowT))
    [] r.fn = "fetchUsage" ->
         [Returned(r, "response", [rejected |-> FALSE,
                                   value |-> fetchUsageRows(body, id0)])
          EXCEPT !.ids = Cardinality(MissingIds(body.rows))]
    [] r.fn = "fetchModels" ->
         Returned(r, "response", [rejected |-> FALSE, value |-> fetchModelsRows(body)])
    [] r.fn = "healthCheck" ->
         Returned(r, "response", healthCheckBody(body, nowT))

\* What the call r returns when its request fails: cause is "timeout" when
\* its timer aborted the request and "network" when the network did.
OnFailure(r, cause, draws, id0, nowT) ==
  CASE r.fn = "testProviderConnection" ->
         Returned(r, cause, testProviderConnectionCatch(
                              IF cause = "timeout" THEN "TimeoutError" ELSE "TypeError"))
    [] r.fn \in BodyReaders \cup {"fetchGenericUsage"} ->
         Returned(r, cause, fetchUsageCatch(
                              IF cause = "timeout" THEN "TimeoutError" ELSE "TypeError"))
    [] r.fn \in OpenCodeCalls -> OpenCodeCatch(r, cause, draws, id0, nowT)

(***************************************************************************)
(* useProviderConfig.  An operation is an operator from the hook's state   *)
(* h (configs, activeProvider, loading, error, with localStorage as ls and *)
(* the id generator) to the state it leaves.                               *)
(***************************************************************************)
HookBegin ==
  [configs |-> providerConfig.configs,
   activeProvider |-> providerConfig.activeProvider,
   loading |-> providerConfig.loading, error |-> providerConfig.error,
   ls |-> localStorage, fault |-> storageFault, nextId |-> nextId, ret |-> <<>>]

\* The index of the first config of provider in configs, 0 if none.
findIndex(configs, provider) ==
  IF \E i \in DOMAIN configs : configs[i].provider = provider
  THEN CHOOSE i \in DOMAIN configs :
         /\ configs[i].provider = provider
         /\ \A j \in 1..(i - 1) : configs[j].provider /= provider
  ELSE 0

\* setConfigs followed by saveToStorage(STORAGE_KEYS.CONFIG, updated).
setConfigs(h, updated) ==
  [h EXCEPT !.configs = updated,
            !.ls = saveToStorage(h.ls, h.fault, CONFIG, updated)]

\* saveConfig up to its await: the joined text of the validation errors
\* is the message "validation failed".
saveConfigValidate(h, config) ==
  IF ~validateProviderConfig(config).isValid
  THEN [h EXCEPT !.loading = FALSE, !.error = Null,
                 !.ret = <<[isValid |-> FALSE, message |-> "validation failed",
                            errorCode |-> <<>>]>>]
  ELSE [h EXCEPT !.loading = TRUE, !.error = Null]

\* saveConfig from its await on, testProviderConnection having returned
\* connectionResult.
saveConfigResume(h, config, connectionResult, nowT) ==
  LET existing == findIndex(h.configs, config.provider)
      updatedConfigs ==
        IF existing > 0
        THEN [h.configs EXCEPT ![existing] = Spread(config, [updatedAt |-> nowT])]
        ELSE Append(h.configs,
                    Spread(config, [id |-> h.nextId, createdAt |-> nowT,
                                    updatedAt |-> nowT]))
      saved == setConfigs([h EXCEPT !.nextId = IF existing > 0 THEN @ ELSE @ + 1],
                          updatedConfigs)
  IN IF ~connectionResult.isValid
     THEN [h EXCEPT !.loading = FALSE, !.ret = <<connectionResult>>]
     ELSE [saved EXCEPT !.activeProvider = IF config.isEnabled
                                            THEN Some(config.provider) ELSE @,
                        !.loading = FALSE,
                        !.ret = <<[isValid |-> TRUE, message |-> "saved",
                                   errorCode |-> <<>>]>>]

deleteConfig(h, provider) ==
  LET filtered == SelectSeq(h.configs, LAMBDA c : c.provider /= provider)
      saved == setConfigs(h, filtered)
  IN [saved EXCEPT !.activeProvider = IF @ = Some(provider) THEN Null ELSE @]

toggleEnabled(h, provider, nowT) ==
  setConfigs(h,
    [i \in DOMAIN h.configs |->
       IF h.configs[i].provider = provider
       THEN Spread(h.configs[i], [isEnabled |-> ~h.configs[i].isEnabled,
                                  updatedAt |-> nowT])
       ELSE h.configs[i]])

Key8 == <<"a", "b", "c", "d", "e", "f", "g", "h">>

SkKey == <<"s", "k", "-">> \o [i \in 1..20 |-> "a"]

ApiKeyTexts ==
  { <<>>, <<"a", "b", "c">>, Key8, <<"a", "b", "c", " ", "e", "f", "g", "h">>, SkKey }

\* ProviderConfig values: an enabled opencode config with each key, an
\* OpenAI config with a key of its format and one with a key of another,
\* and a config without provider.
ConfigInputs ==
  { [provider |-> "opencode", apiKey |-> apiKey, baseUrl |-> <<>>,
     isEnabled |-> TRUE] : apiKey \in ApiKeyTexts \ {SkKey} }
  \cup
  { [provider |-> "OpenAI", apiKey |-> SkKey, baseUrl |-> <<>>, isEnabled |-> FALSE],
    [provider |-> "OpenAI", apiKey |-> Key8, baseUrl |-> <<>>, isEnabled |-> FALSE],
    [provider |-> "", apiKey |-> Key8, baseUrl |-> <<>>, isEnabled |-> TRUE] }

\* The configs testConnection is called with.
TestInputs ==
  { [provider |-> "opencode", apiKey |-> Key8, baseUrl |-> <<>>, isEnabled |-> TRUE] }

\* The operation op of the hook, called with arg, ends and leaves h.
HookCommit(op, arg, h) ==
  /\ calls < MaxCalls
  /\ calls' = calls + 1
  /\ providerConfig' = [configs |-> h.configs, activeProvider |-> h.activeProvider,
                        loading |-> h.loading, error |-> h.error]
  /\ localStorage' = h.ls
  /\ nextId' = h.nextId
  /\ lastOp' = [op |-> op, arg |-> arg, hit |-> FALSE, ret |-> h.ret,
                writes |-> 0, recomputes |-> 0, thrown |-> FALSE]
  /\ UNCHANGED <<sources, selectedSourceIds, defaultCurrency, costSummary,
                 persisted, clock, tz, exported, storageFault, fanout, registry, usageData>>

\* A provider call begins: its request is sent.
Send(r) ==
  /\ calls < MaxCalls
  /\ Len(requests) < MaxRequests
  /\ requests' = Append(requests, r)

\* saveConfig is called: it ends at once when the config is invalid, and
\* awaits testProviderConnection otherwise.
SaveConfig ==
  \E config \in ConfigInputs :
    IF ~validateProviderConfig(config).isValid
    THEN /\ HookCommit("saveConfig", config, saveConfigValidate(HookBegin, config))
         /\ UNCHANGED requests
    ELSE /\ nextId <= MaxIds
         /\ Send(NewRequest("testProviderConnection", "saveConfig", config))
         /\ providerConfig' = [providerConfig EXCEPT !.loading = TRUE, !.error = Null]
         /\ UNCHANGED <<sources, selectedSourceIds, defaultCurrency, costSummary,
                        persisted, nextId, clock, tz, lastOp, calls, exported,
                        localStorage, storageFault, fanout, registry, usageData>>

\* testConnection of the hook is called, with the key and provider of
\* config.
TestConnection ==
  \E config \in TestInputs :
    /\ Send(NewRequest("testProviderConnection", "testConnection", config))
    /\ UNCHANGED <<sources, selectedSourceIds, defaultCurrency, costSummary,
                   persisted, nextId, clock, tz, lastOp, calls, exported,
                   localStorage, storageFault, providerConfig, fanout, registry, usageData>>

DeleteConfig ==
  \E provider \in {"opencode"} :
    /\ HookCommit("deleteConfig", provider, deleteConfig(HookBegin, provider))
    /\ UNCHANGED requests

ToggleEnabled ==
  \E provider \in {"OpenAI"} :
    /\ HookCommit("toggleEnabled", provider, toggleEnabled(HookBegin, provider, Now))
    /\ UNCHANGED requests

(***************************************************************************)
(* ProviderRegistry.  providers is the sequence of the registered names in *)
(* the order of the Map's keys, instances the set of the instance keys of  *)
(* the cached instances; an instance key `${name}:${apiKey || 'default'}`  *)
(* is the tuple of its pieces.  An operation is an operator from the       *)
(* registry reg to [reg, ret, thrown]: the registry it leaves, what it     *)
(* returns and whether it throws.                                          *)
(***************************************************************************)
RegistryNames == {"opencode", "openai"}

\* apiKey arguments: left out, and a key.
RegistryApiKeys == {Null, Some("sk-1")}

\* !value of a string | null.
Falsy(value) == value = Null \/ value = Some("")

InstanceKey(name, apiKey) ==
  <<name, ":", IF Falsy(apiKey) THEN "default" ELSE apiKey[1]>>

register(reg, name) ==
  [reg |-> [reg EXCEPT
              !.providers = IF name \in Range(@) THEN @ ELSE Append(@, name),
              !.defaultProvider = IF Falsy(@) THEN Some(name) ELSE @],
   ret |-> Null, thrown |-> FALSE]

\* unregister that leaves defaultProvider as it is.
unregister_keepDefault(reg, name) ==
  [reg |-> [reg EXCEPT !.providers = SelectSeq(@, LAMBDA n : n /= name),
                       !.instances = @ \ {<<name>>}],
   ret |-> Null, thrown |-> FALSE]

unregister(reg, name) ==
  IF name \notin Range(reg.providers)
  THEN [reg |-> reg, ret |-> Null, thrown |-> FALSE]
  ELSE [reg |-> [reg EXCEPT
                   !.providers = SelectSeq(@, LAMBDA n : n /= name),
                   !.instances = @ \ {<<name>>},
                   !.defaultProvider =
                     IF @ /= Some(name) THEN @
                     ELSE IF SelectSeq(reg.providers, LAMBDA n : n /= name) = <<>>
                          THEN Null
                     ELSE IF Falsy(Some(Head(SelectSeq(reg.providers,
                                                       LAMBDA n : n /= name))))
                          THEN Null
                     ELSE Some(Head(SelectSeq(reg.providers, LAMBDA n : n /= name)))],
        ret |-> Null, thrown |-> FALSE]

getProvider(reg, name, apiKey) ==
  IF InstanceKey(name, apiKey) \in reg.instances
  THEN [reg |-> reg, ret |-> Some(InstanceKey(name, apiKey)), thrown |-> FALSE]
  ELSE IF name \notin Range(reg.providers)
  THEN [reg |-> reg, ret |-> Null, thrown |-> TRUE]
  ELSE [reg |-> [reg EXCEPT !.instances = @ \cup {InstanceKey(name, apiKey)}],
        ret |-> Some(InstanceKey(name, apiKey)), thrown |-> FALSE]

setDefaultProvider(reg, name) ==
  IF name \notin Range(reg.providers)
  THEN [reg |-> reg, ret |-> Null, thrown |-> TRUE]
  ELSE [reg |-> [reg EXCEPT !.defaultProvider = Some(name)],
        ret |-> Null, thrown |-> FALSE]

clear(reg) ==
  [reg |-> [providers |-> <<>>, instances |-> {}, defaultProvider |-> Null],
   ret |-> Null, thrown |-> FALSE]

(***************************************************************************)
(* useUsageData.  u is the hook's state (data, loading, error,             *)
(* lastUpdated, cacheHit, and cache, the Map of cacheRef by cache key).    *)
(***************************************************************************)
\* 5 minutes; the model's clock stands still or moves on by 31 days, and
\* its unit is the hour.
CACHE_DURATION == 1

\* `${params.startDate}-${params.endDate}-${params.modelId || 'all'}`
generateCacheKey(params) ==
  <<params.startDate, params.endDate,
    IF "modelId" \in DOMAIN params THEN params.modelId ELSE "all">>

getCachedData(u, params, nowT) ==
  IF /\ generateCacheKey(params) \in DOMAIN u.cache
     /\ nowT - u.cache[generateCacheKey(params)].timestamp < CACHE_DURATION
  THEN Some(u.cache[generateCacheKey(params)].data)
  ELSE Null

\* The catch and finally of fetchUsage: the error is kept and the data of
\* localStorage, if there are any, are shown.
fetchUsageCatchLocal(u, ls, fault, message) ==
  IF getFromStorage(ls, fault, USAGE, <<>>) /= <<>>
  THEN [u EXCEPT !.error = Some(message),
                 !.data = getFromStorage(ls, fault, USAGE, <<>>),
                 !.lastUpdated = Some(getFromStorage(ls, fault, LAST_SYNC, "")),
                 !.loading = FALSE]
  ELSE [u EXCEPT !.error = Some(message), !.loading = FALSE]

\* fetchUsage up to its await: it ends at once on a cache hit or when
\* getProvider throws, and awaits provider.fetchUsage(params) otherwise
\* (sent).
fetchUsageBegin(u, reg, ls, fault, params, nowT) ==
  IF getCachedData(u, params, nowT) /= Null
  THEN [u |-> [u EXCEPT !.error = Null, !.data = getCachedData(u, params, nowT)[1],
                        !.cacheHit = TRUE, !.loading = FALSE],
        reg |-> reg, sent |-> FALSE]
  ELSE IF getProvider(reg, "opencode", Null).thrown
  THEN [u |-> fetchUsageCatchLocal([u EXCEPT !.cacheHit = FALSE], ls, fault,
                                   "not registered"),
        reg |-> reg, sent |-> FALSE]
  ELSE [u |-> [u EXCEPT !.loading = TRUE, !.error = Null, !.cacheHit = FALSE],
        reg |-> getProvider(reg, "opencode", Null).reg, sent |-> TRUE]

\* fetchUsage from its await on: provider.fetchUsage(params) has settled
\* with result.
fetchUsageResume(u, ls, fault, params, result, nowT) ==
  IF result.rejected
  THEN [u |-> fetchUsageCatchLocal(u, ls, fault, "failed"), ls |-> ls]
  ELSE [u |-> [u EXCEPT !.cache = [key \in DOMAIN @ \cup {generateCacheKey(params)} |->
                                     IF key = generateCacheKey(params)
                                     THEN [data |-> result.value, timestamp |-> nowT]
                                     ELSE @[key]],
                        !.data = result.value,
                        !.lastUpdated = Some(nowT),
                        !.loading = FALSE],
        ls |-> saveToStorage(ls, fault, USAGE, result.value)]

\* The calls of the hook's fetchUsage that await their provider.
HookRequests == {j \in DOMAIN requests : requests[j].caller = "useUsageData"}

\* The call of fetchUsage that awaited requests[i] goes on and ends.
UsageDataResume(i, done) ==
  LET out == fetchUsageResume(usageData, localStorage, storageFault, done.arg,
                              done.ret[1], Now)
  IN /\ calls < MaxCalls
     /\ calls' = calls + 1
     /\ usageData' = out.u
     /\ localStorage' = out.ls
     /\ nextId' = nextId + done.ids
     /\ lastOp' = [op |-> "useUsageData.fetchUsage", arg |-> [request |-> i],
                   hit |-> TRUE, ret |-> <<>>, writes |-> 0, recomputes |-> 0,
                   thrown |-> FALSE]
     /\ UNCHANGED <<sources, selectedSourceIds, defaultCurrency, costSummary,
                    persisted, clock, tz, exported, storageFault, providerConfig,
                    fanout, registry>>

\* One of the parallel fetches of fetchAllProvidersUsage has returned
\* done.ret: it is stored under the provider name of its config, and the
\* call returns results once every fetch has returned.
FanIn(i, done) ==
  LET provider == done.arg.provider
      results == [p \in DOMAIN fanout.results \cup {provider} |->
                    IF p = provider THEN done.ret[1] ELSE fanout.results[p]]
      allDone == \A k \in DOMAIN fanout.requestOf :
                   fanout.requestOf[k] = i \/ requests[fanout.requestOf[k]].phase = "done"
  IN /\ calls < MaxCalls
     /\ fanout' = [fanout EXCEPT !.results = results, !.returned = allDone]
     /\ IF allDone
        THEN /\ calls' = calls + 1
             /\ lastOp' = [op |-> "fetchAllProvidersUsage", arg |-> fanout.configs,
                           hit |-> FALSE, ret |-> <<results>>, writes |-> 0,
                           recomputes |-> 0, thrown |-> FALSE]
        ELSE UNCHANGED <<calls, lastOp>>
     /\ UNCHANGED <<sources, selectedSourceIds, defaultCurrency, costSummary,
                    persisted, nextId, clock, tz, exported, localStorage,
                    storageFault, providerConfig, registry, usageData>>

\* The call requests[i] goes on as next tells; when it has returned, the
\* operation awaiting it goes on.
Resume(i, next) ==
  /\ requests' = [requests EXCEPT ![i] = next]
  /\ IF next.phase /= "done"
     THEN UNCHANGED <<sources, selectedSourceIds, defaultCurrency, costSummary,
                      persisted, nextId, clock, tz, lastOp, calls, exported,
                      localStorage, storageFault, providerConfig, fanout, registry, usageData>>
     ELSE CASE next.caller = "saveConfig" ->
                 HookCommit("saveConfig", next.arg,
                            saveConfigResume(HookBegin, next.arg, next.ret[1], Now))
            [] next.caller = "fetchAllProvidersUsage" -> FanIn(i, next)
            [] next.caller = "useUsageData" -> UsageDataResume(i, next)
            [] OTHER ->
                 HookCommit(next.caller, next.arg,
                            [HookBegin EXCEPT !.ret = next.ret, !.nextId = @ + next.ids])

\* What Math.random gives for a record of getMockUsageData: the least and
\* the greatest token counts.
RandomDraws ==
  { [inputTokens |-> 1000, outputTokens |-> 500,
     costInputTokens |-> 10999, costOutputTokens |-> 5499],
    [inputTokens |-> 10999, outputTokens |-> 5499,
     costInputTokens |-> 1000, costOutputTokens |-> 500] }

\* The draws of the mock records the call r may need.
DrawsFor(r) ==
  IF r.fn = "fetchUsage" THEN [1..MockRows(r.arg) -> RandomDraws] ELSE {<<>>}

\* The bodies of OK responses, as parsed by response.json().
BodyInputs ==
  { [error |-> failed,
     base_resp |-> [status_code |-> IF failed THEN 1004 ELSE 0],
     quota |-> [remain_quota |-> 400, total_quota |-> 1000],
     total_usage |-> 600,
     usage |-> [input_tokens |-> 1200, output_tokens |-> 300, total_cost |-> 2500],
     rows |-> IF failed THEN <<>>
              ELSE <<[id |-> <<>>, model_id |-> "m1", model_name |-> "M1",
                      input_tokens |-> 1200, output_tokens |-> 300, cost |-> 2500,
                      currency |-> "", date |-> <<2024, 12, 31>>]>>,
     models |-> IF failed THEN <<>>
                ELSE <<[id |-> "m1", name |-> "M1", input_price_per_million |-> 500,
                        output_price_per_million |-> 1500, currency |-> ""]>>,
     status |-> IF failed THEN "busy" ELSE "ok"] : failed \in BOOLEAN }

\* The response to a request arrives.
ResponseArrives ==
  \E i \in DOMAIN requests, status \in HttpStatuses :
    /\ requests[i].phase = "headers"
    /\ \E draws \in DrawsFor(requests[i]) :
         Resume(i, OnResponse(requests[i], status, draws, nextId, Now))

\* The body of an OK response has been read.
BodyArrives ==
  \E i \in DOMAIN requests, body \in BodyInputs :
    /\ requests[i].phase = "body"
    /\ Resume(i, OnBody(requests[i], body, nextId, Now))

\* The network fails a request, before the response or while its body is
\* read.
NetworkFails ==
  \E i \in DOMAIN requests :
    /\ requests[i].phase /= "done"
    /\ \E draws \in DrawsFor(requests[i]) :
         Resume(i, OnFailure(requests[i], "network", draws, nextId, Now))

\* The timeout of a request elapses while its timer is armed.
TimerFires ==
  \E i \in DOMAIN requests :
    /\ requests[i].phase /= "done"
    /\ requests[i].timer
    /\ \E draws \in DrawsFor(requests[i]) :
         Resume(i, OnFailure(requests[i], "timeout", draws, nextId, Now))

NextProvider ==
  \/ SubmitForm
  \/ SaveConfig
  \/ TestConnection
  \/ DeleteConfig
  \/ ToggleEnabled
  \/ ResponseArrives
  \/ NetworkFails
  \/ TimerFires

\* The form and the hook are followed in one time zone, UTC.
InitProvider == Init /\ tz = 0

SpecProvider == InitProvider /\ [][NextProvider]_vars

(***************************************************************************)
(* The claims about the store.                                             *)
(***************************************************************************)
MutatingOps ==
  {"addSource", "updateSource", "deleteSource", "duplicateSource",
   "bulkUpdateBillingMode", "bulkDelete", "bulkEnable", "bulkDisable",
   "importSources"}

SelectionOps ==
  {"toggleSourceSelection", "selectAll", "deselectAll", "setSelectedSources"}

IdsOf(srcs) == [i \in DOMAIN srcs |-> srcs[i].id]

\* duplicateSource was called with an id that is not in the collection.
DuplicateMissed == lastOp.op = "duplicateSource" /\ ~lastOp.hit

\* C1 as stated: after each completed call of a mutating operation or of
\* setDefaultCurrency, the cached costSummary is calculateSummary of the
\* collection as it stands.
C1_SummaryFreshAfterEveryCall ==
  lastOp.op \in MutatingOps \cup {"setDefaultCurrency"}
    => costSummary = Some(calculateSummary(sources, Now, tz))

\* C1 amended: after each completed call of a mutating operation or of
\* setDefaultCurrency, except a duplicateSource call that did not find its
\* id, the cached costSummary is calculateSummary of the collection as it
\* stands after the call.
C1_SummaryFresh ==
  (lastOp.op \in MutatingOps \cup {"setDefaultCurrency"} /\ ~DuplicateMissed)
    => costSummary = Some(calculateSummary(sources, Now, tz))

\* An updateSource call that changed a record of a two-record collection,
\* made after the clock had moved on.
C1_Witness ==
  /\ lastOp.op = "updateSource"
  /\ lastOp.hit
  /\ clock = 1
  /\ Len(sources) = 2
  /\ \E i \in DOMAIN sources : sources[i].isEnabled

\* C2: in every summary totalMonthlyCost is roundCost(totalDailyCost * 30)
\* and totalYearlyCost is roundCost(totalDailyCost * 365), totalDailyCost
\* being the rounded figure of the same summary.
C2_TotalsFromRoundedDaily ==
  costSummary /= Null =>
    /\ costSummary[1].totalMonthlyCost =
         roundCost(costSummary[1].totalDailyCost * DAYS_IN_MONTH, 1)
    /\ costSummary[1].totalYearlyCost =
         roundCost(costSummary[1].totalDailyCost * DAYS_IN_YEAR, 1)

\* C3: no two records of the collection share an id, and a call that
\* creates and removes no record leaves every record's id as it was.
C3_IdsUniqueAndImmutable ==
  [][/\ \A i, j \in DOMAIN sources' :
          i /= j => sources'[i].id /= sources'[j].id
     /\ lastOp'.op \in {"updateSource", "bulkUpdateBillingMode", "bulkEnable",
                        "bulkDisable"}
          => IdsOf(sources') = IdsOf(sources)]_vars

\* C4: the selection set holds only ids of records of the collection.
C4_SelectionWithinCollection == selectedSourceIds \subseteq Ids

C7_DuplicateIsDisabledCopy ==
  [][(lastOp'.op = "duplicateSource" /\ lastOp'.hit) =>
       \A id \in lastOp'.arg :
         LET original == getSourceById(Begin, id)[1]
             copy == sources'[Len(sources')]
         IN /\ Len(sources') = Len(sources) + 1
            /\ SubSeq(sources', 1, Len(sources)) = sources
            /\ copy.id \notin Ids
            /\ lastOp'.ret = Some(copy.id)
            /\ copy.isEnabled = FALSE
            /\ copy.name = Append(original.name, DuplicateMarker)
            /\ \A f \in {"type", "provider", "billingMode", "cost", "currency",
                         "startDate", "endDate", "description"} :
                 copy[f] = original[f]
            /\ costSummary /= Null
            /\ costSummary' /= Null
            /\ \A f \in {"totalDailyCost", "totalMonthlyCost", "totalYearlyCost"} :
                 costSummary'[1][f] = costSummary[1][f]
            /\ costSummary'[1].totalSourcesCount =
                 costSummary[1].totalSourcesCount + 1]_vars

\* duplicateSource has copied an enabled record.
C7_Witness ==
  /\ lastOp.op = "duplicateSource"
  /\ lastOp.hit
  /\ Len(sources) = 2
  /\ sources[1].isEnabled
  /\ sources[2].name = Append(sources[1].name, DuplicateMarker)

\* C8: updateSource, deleteSource, duplicateSource or a bulk operation
\* called with ids that are not in the collection leaves every record and
\* the selection set unchanged, and duplicateSource then returns null.
C8_UnknownIdChangesNothing ==
  [][(lastOp'.op \in MutatingOps \ {"addSource", "importSources"} /\ ~lastOp'.hit) =>
       /\ sources' = sources
       /\ selectedSourceIds' = selectedSourceIds
       /\ lastOp'.ret = Null]_vars

\* C10: after reset() the collection and the selection set are empty, the
\* cached summary is null and the persisted copy holds the empty
\* collection.
C10_ResetClearsAll ==
  lastOp.op = "reset" =>
    /\ sources = <<>>
    /\ selectedSourceIds = {}
    /\ costSummary = Null
    /\ defaultCurrency = "CNY"
    /\ persisted = Some([sources |-> <<>>, defaultCurrency |-> "CNY"])

\* reset() was the third call of a store to which records had been added.
C10_Witness ==
  /\ lastOp.op = "reset"
  /\ calls = 3
  /\ nextId > 2

\* C9: a fresh store that imports the result of exportSources() holds as
\* many records, in the same order and with the same field values; every
\* id is newly assigned and differs from every exported id, and createdAt
\* and updatedAt are stamped with the time of the import.
C9_RoundTrip ==
  (exported /= Null /\ lastOp.op = "importSources" /\ calls = 1) =>
    /\ Len(sources) = Len(exported[1])
    /\ \A i \in DOMAIN sources :
         /\ \A f \in {"name", "type", "provider", "billingMode", "cost",
                      "currency", "startDate", "endDate", "isEnabled",
                      "description"} :
              sources[i][f] = exported[1][i][f]
         /\ sources[i].id \notin Range(IdsOf(exported[1]))
         /\ \A j \in DOMAIN sources : i /= j => sources[i].id /= sources[j].id
         /\ sources[i].createdAt = Now
         /\ sources[i].updatedAt = Now

\* A fresh store has imported a snapshot of two records, one of them
\* disabled, at a later time than the records were last stamped.
C9_Witness ==
  /\ exported /= Null
  /\ lastOp.op = "importSources"
  /\ calls = 1
  /\ Len(sources) = 2
  /\ \E i \in DOMAIN sources : ~sources[i].isEnabled
  /\ \A i \in DOMAIN sources : exported[1][i].updatedAt /= sources[i].updatedAt

(***************************************************************************)
(* The claims about the calculator, as the store uses it.                  *)
(***************************************************************************)
\* C11: whenever no source of the collection is enabled, the summary has
\* totalDailyCost, totalMonthlyCost and totalYearlyCost 0,
\* enabledSourcesCount 0, empty costByProvider and costByType, and a
\* monthlyTrend of as many entries as the window (6), each of cost 0.
C11_NoEnabledSourceZeroSummary ==
  (costSummary /= Null /\ \A i \in DOMAIN sources : ~sources[i].isEnabled) =>
    /\ costSummary[1].totalDailyCost = 0
    /\ costSummary[1].totalMonthlyCost = 0
    /\ costSummary[1].totalYearlyCost = 0
    /\ costSummary[1].enabledSourcesCount = 0
    /\ costSummary[1].totalSourcesCount = Len(sources)
    /\ DOMAIN costSummary[1].costByProvider = {}
    /\ DOMAIN costSummary[1].costByType = {}
    /\ Len(costSummary[1].monthlyTrend) = TrendMonths
    /\ \A k \in DOMAIN costSummary[1].monthlyTrend :
         costSummary[1].monthlyTrend[k].cost = 0

\* bulkDisable has disabled both records of a collection.
C11_Witness ==
  /\ lastOp.op = "bulkDisable"
  /\ lastOp.hit
  /\ Len(sources) = 2
  /\ Ids \subseteq lastOp.arg
  /\ \A i \in DOMAIN sources : ~sources[i].isEnabled /\ sources[i].updatedAt = Now

\* C12: adding an enabled source of positive cost to a collection makes the
\* summary's totalDailyCost strictly greater, by the source's
\* normalizeToDaily(cost, billingMode).
C12_AddingEnabledSourceRaisesDaily ==
  [][(/\ lastOp'.op = "addSource"
      /\ sources'[Len(sources')].isEnabled
      /\ sources'[Len(sources')].cost > 0) =>
       /\ costSummary'[1].totalDailyCost >
            calculateSummary(sources, Now, tz).totalDailyCost
       /\ costSummary'[1].totalDailyCost -
            calculateSummary(sources, Now, tz).totalDailyCost =
              normalizeToDaily(sources'[Len(sources')].cost,
                               sources'[Len(sources')].billingMode)]_vars

DateTexts == { <<>>, <<2024, 12, 31>>, <<"soon">> }

\* Source data with a date string that is no date.
MalformedInputs ==
  { [name |-> <<"typo">>, type |-> "api", provider |-> <<"openai">>,
     billingMode |-> "monthly", cost |-> 300000, currency |-> "USD",
     startDate |-> <<"soon">>, endDate |-> <<>>, isEnabled |-> TRUE,
     description |-> <<>>],
    [name |-> <<"draft">>, type |-> "hardware", provider |-> <<>>,
     billingMode |-> "yearly", cost |-> 100000, currency |-> "CNY",
     startDate |-> <<2024, 8, 1>>, endDate |-> <<"soon">>, isEnabled |-> FALSE,
     description |-> <<>>] }

AddMalformedSource ==
  \E source \in MalformedInputs :
    /\ Len(sources) < MaxSources
    /\ nextId <= MaxIds
    /\ Commit("addSource", {}, TRUE, addSource(Begin, source, Now, tz))

\* A direct call of a calculator function: nothing of the store changes.
CalculatorCall(op, thrown) ==
  /\ lastOp' = [op |-> op, arg |-> {}, hit |-> TRUE, ret |-> <<>>,
                writes |-> 0, recomputes |-> 0, thrown |-> thrown]
  /\ UNCHANGED <<sources, selectedSourceIds, defaultCurrency, costSummary,
                 persisted, nextId, clock, tz, calls, exported>>
  /\ UNCHANGED outsideStore

CalculateAmortizedCost ==
  \E startDate \in DateTexts \ {<<>>}, endDate \in DateTexts :
    CalculatorCall("calculateAmortizedCost",
                   calculateAmortizedCostThrows(startDate, endDate))

FilterByDateRange ==
  \E startDate \in DateTexts, endDate \in DateTexts, date \in DateTexts :
    CalculatorCall("filterByDateRange",
                   filterByDateRangeThrows(<<[date |-> date]>>, startDate, endDate))

CompareCosts ==
  \E previous \in {<<>>} \cup {<<Incoming(s, 0)>> : s \in MalformedInputs} :
    CalculatorCall("compareCosts", compareCostsThrows(sources, previous))

NextMalformed ==
  \/ AddMalformedSource
  \/ AddSource
  \/ DeleteSource
  \/ BulkEnable
  \/ BulkDisable
  \/ RecalculateSummary
  \/ CalculateAmortizedCost
  \/ FilterByDateRange
  \/ CompareCosts

SpecMalformed == Init /\ [][NextMalformed]_vars

\* C14: no call of a store mutation or of calculateSummary,
\* calculateMonthlyTrend, calculateAmortizedCost, filterByDateRange or
\* compareCosts throws, whatever the date strings are, and a store mutation
\* on a collection holding a record with an unparseable date still
\* completes its recompute.
C14_CalculatorNeverThrows ==
  /\ ~lastOp.thrown
  /\ lastOp.op \in {"addSource", "deleteSource", "bulkEnable", "bulkDisable",
                    "recalculateSummary"} => lastOp.recomputes = 1

(***************************************************************************)
(* The store and the storage helpers on a localStorage that fails.         *)
(***************************************************************************)
\* ProviderConfig[] values kept under CONFIG.
ConfigListInputs ==
  { <<>>, <<[provider |-> "openai", apiKey |-> "key-1", baseUrl |-> <<>>,
             isEnabled |-> TRUE]>> }

\* DailyUsage[] values.
UsageDataInputs ==
  { <<[date |-> <<2024, 12, 31>>, inputTokens |-> 400, outputTokens |-> 600,
       cost |-> 1000, modelName |-> "gpt-4"]>> }

\* getItem(key) returns text that JSON.parse reads.
Readable(key) ==
  /\ storageFault /= "denied"
  /\ localStorage[key] /= Null
  /\ localStorage[key] /= Some(<<>>)
  /\ ~JsonParseThrows(localStorage[key][1])

\* A call of a storage helper: it returns ret and leaves the items ls.
StorageCall(op, hit, ret, ls) ==
  /\ calls < MaxCalls
  /\ calls' = calls + 1
  /\ localStorage' = ls
  /\ lastOp' = [op |-> op, arg |-> {}, hit |-> hit, ret |-> ret,
                writes |-> 0, recomputes |-> 0, thrown |-> FALSE]
  /\ UNCHANGED <<sources, selectedSourceIds, defaultCurrency, costSummary,
                 persisted, nextId, clock, tz, exported, storageFault,
                 providerConfig, requests, fanout, registry, usageData>>

GetFromStorage ==
  \E key \in {CONFIG, USAGE_DATA_KEY} :
    StorageCall("getFromStorage", Readable(key),
                Some(getFromStorage(localStorage, storageFault, key, <<>>)),
                localStorage)

SaveToStorage ==
  \E value \in ConfigListInputs :
    StorageCall("saveToStorage", storageFault = "none", Null,
                saveToStorage(localStorage, storageFault, CONFIG, value))

SaveUsageData ==
  \E provider \in ProviderNames, data \in UsageDataInputs :
    StorageCall("saveUsageData", storageFault = "none", Null,
                saveUsageData(localStorage, storageFault, provider, data))

GetUsageData ==
  \E provider \in ProviderNames :
    StorageCall("getUsageData", Readable(UsageKey(provider)),
                Some(getUsageData(localStorage, storageFault, provider)),
                localStorage)

\* The environment: localStorage starts or stops failing.
StorageFaultChanges ==
  /\ \E fault \in StorageFaults \ {storageFault} : storageFault' = fault
  /\ lastOp' = [op |-> "idle", arg |-> {}, hit |-> FALSE, ret |-> <<>>,
                writes |-> 0, recomputes |-> 0, thrown |-> FALSE]
  /\ UNCHANGED <<sources, selectedSourceIds, defaultCurrency, costSummary,
                 persisted, nextId, clock, tz, calls, exported, localStorage,
                 providerConfig, requests, fanout, registry, usageData>>

\* The environment: an item is overwritten with text that is no JSON.
StorageItemCorrupted ==
  /\ \E key \in {CONFIG, UsageKey("openai")} :
       /\ localStorage[key] /= Some(<<"{oops">>)
       /\ localStorage' = [localStorage EXCEPT ![key] = Some(<<"{oops">>)]
  /\ lastOp' = [op |-> "idle", arg |-> {}, hit |-> FALSE, ret |-> <<>>,
                writes |-> 0, recomputes |-> 0, thrown |-> FALSE]
  /\ UNCHANGED <<sources, selectedSourceIds, defaultCurrency, costSummary,
                 persisted, nextId, clock, tz, calls, exported, storageFault,
                 providerConfig, requests, fanout, registry, usageData>>

NextStorage ==
  \/ AddSource
  \/ DeleteSource
  \/ BulkDisable
  \/ ToggleSourceSelection
  \/ GetFromStorage
  \/ SaveToStorage
  \/ SaveUsageData
  \/ GetUsageData
  \/ StorageFaultChanges
  \/ StorageItemCorrupted

SpecStorage == Init /\ [][NextStorage]_vars

\* C15: when localStorage fails on a read or on a write, no storage helper
\* and no store operation throws, a read that fails returns the fallback
\* value, and a store mutation still applies to the collection and
\* refreshes the summary.
C15_StorageFailureTolerated ==
  /\ ~lastOp.thrown
  /\ (lastOp.op \in {"getFromStorage", "getUsageData"} /\ ~lastOp.hit)
       => lastOp.ret = Some(<<>>)
  /\ lastOp.op \in {"addSource", "deleteSource", "bulkDisable"}
       => costSummary = Some(calculateSummary(sources, Now, tz))

(***************************************************************************)
(* Fetching usage: fetchAllProvidersUsage and the calls of                 *)
(* OpenCodeProvider.                                                       *)
(***************************************************************************)
\* The indices of the enabled configs.
EnabledConfigs(configs) == {k \in DOMAIN configs : configs[k].isEnabled}

OpenAIConfig(apiKey, isEnabled) ==
  [provider |-> "openai", apiKey |-> apiKey, baseUrl |-> <<>>, isEnabled |-> isEnabled]

OpenCodeConfig(isEnabled) ==
  [provider |-> "opencode", apiKey |-> Key8, baseUrl |-> <<>>, isEnabled |-> isEnabled]

\* ProviderConfig[] values: none, two providers, one of them disabled,
\* and two configs of one provider with keys of their own.
FanoutInputs ==
  { <<>>,
    <<OpenAIConfig(SkKey, TRUE), OpenCodeConfig(TRUE)>>,
    <<OpenAIConfig(SkKey, TRUE), OpenCodeConfig(FALSE)>>,
    <<OpenAIConfig(SkKey, TRUE), OpenAIConfig(Key8, TRUE)>> }

\* UsageParams values: one day, and a start after the end.
UsageParamsInputs ==
  { [startDate |-> <<2024, 12, 31>>, endDate |-> <<2024, 12, 31>>],
    [startDate |-> <<2025, 1, 1>>, endDate |-> <<2024, 12, 31>>] }

\* fetchAllProvidersUsage is called: the requests of the enabled configs
\* are sent, in the order of the list.
FetchAllProvidersUsage ==
  \E configs \in FanoutInputs :
    LET enabled == EnabledConfigs(configs)
        requestOf == [k \in enabled |->
                        Len(requests) + Cardinality({j \in enabled : j <= k})]
        sent == [n \in 1..Cardinality(enabled) |->
                   LET k == CHOOSE j \in enabled : requestOf[j] = Len(requests) + n
                   IN NewRequest(fetchProviderUsage(configs[k].provider),
                                 "fetchAllProvidersUsage", configs[k])]
    IN /\ fanout.returned
       /\ calls < MaxCalls
       /\ Len(requests) + Cardinality(enabled) <= MaxRequests
       /\ requests' = requests \o sent
       /\ fanout' = [configs |-> configs, requestOf |-> requestOf,
                     results |-> <<>>, returned |-> enabled = {}]
       /\ IF enabled = {}
          THEN /\ calls' = calls + 1
               /\ lastOp' = [op |-> "fetchAllProvidersUsage", arg |-> configs,
                             hit |-> FALSE, ret |-> <<<<>>>>, writes |-> 0,
                             recomputes |-> 0, thrown |-> FALSE]
          ELSE UNCHANGED <<calls, lastOp>>
       /\ UNCHANGED <<sources, selectedSourceIds, defaultCurrency, costSummary,
                      persisted, nextId, clock, tz, exported, localStorage,
                      storageFault, providerConfig, registry, usageData>>

\* What the start of a call of OpenCodeProvider leaves as it is.
untouchedBySend ==
  <<sources, selectedSourceIds, defaultCurrency, costSummary, persisted, nextId,
    clock, tz, lastOp, calls, exported, localStorage, storageFault,
    providerConfig, fanout, registry, usageData>>

\* The calls of OpenCodeProvider begin.
FetchUsage ==
  \E params \in UsageParamsInputs :
    /\ Send(NewRequest("fetchUsage", "fetchUsage", params))
    /\ UNCHANGED untouchedBySend

FetchModels ==
  /\ Send(NewRequest("fetchModels", "fetchModels", <<>>))
  /\ UNCHANGED untouchedBySend

HealthCheck ==
  /\ Send(NewRequest("healthCheck", "healthCheck", <<>>))
  /\ UNCHANGED untouchedBySend

NextFetch ==
  \/ FetchAllProvidersUsage
  \/ FetchUsage
  \/ FetchModels
  \/ HealthCheck
  \/ ResponseArrives
  \/ BodyArrives
  \/ NetworkFails
  \/ TimerFires

SpecFetch == Init /\ [][NextFetch]_vars

(***************************************************************************)
(* The claims about validation and provider calls.                         *)
(***************************************************************************)

\* The form has an empty name, a name over 100 characters, a cost that is
\* empty, not a number, not positive or above 9,999,999, or an end date
\* earlier than its start date.
FormRejected(form) ==
  \/ trim(form.name) = <<>>
  \/ Len(form.name) > 100
  \/ trim(form.cost) = <<>>
  \/ isNaN(parseFloat(form.cost))
  \/ NotPositive(parseFloat(form.cost))
  \/ Above(parseFloat(form.cost), 9999999)
  \/ /\ form.startDate /= <<>>
     /\ form.endDate /= <<>>
     /\ DateTextAfter(form.startDate, form.endDate)

\* The step ends a saveConfig whose connection test failed.
ConnectionTestFailed ==
  \E i \in DOMAIN requests :
    /\ requests[i].phase /= "done"
    /\ requests'[i].phase = "done"
    /\ requests'[i].caller = "saveConfig"
    /\ ~requests'[i].ret[1].isValid

\* C16: a rejected submission changes no stored state: submitting the form
\* with an empty or too long name, a cost that is empty, not a number, not
\* positive or above 9,999,999, or an end date before the start date calls
\* neither addSource nor updateSource (the collection, the summary, the
\* persisted copy and the id generator are as before, nothing is written
\* or recomputed), and a saveConfig whose config fails validation or whose
\* connection test fails leaves the config list and its persisted copy
\* unchanged; neither throws.
C16_RejectedSubmissionChangesNothing ==
  [][ /\ (calls' = calls + 1 /\ lastOp'.op = "handleSubmit"
              /\ FormRejected(lastOp'.arg))
          => /\ sources' = sources
             /\ selectedSourceIds' = selectedSourceIds
             /\ costSummary' = costSummary
             /\ persisted' = persisted
             /\ nextId' = nextId
             /\ lastOp'.writes = 0
             /\ lastOp'.recomputes = 0
             /\ ~lastOp'.thrown
      /\ (calls' = calls + 1 /\ lastOp'.op = "saveConfig"
              /\ (~validateProviderConfig(lastOp'.arg).isValid \/ ConnectionTestFailed))
          => /\ providerConfig'.configs = providerConfig.configs
             /\ localStorage'[CONFIG] = localStorage[CONFIG]
             /\ ~lastOp'.ret[1].isValid
             /\ ~lastOp'.thrown ]_vars

\* A form was rejected after a config had been saved and the saveConfig of
\* another had failed its connection test.
C16_Witness ==
  /\ lastOp.op = "handleSubmit"
  /\ FormRejected(lastOp.arg)
  /\ providerConfig.configs /= <<>>
  /\ localStorage[CONFIG] /= Null
  /\ \E i \in DOMAIN requests :
       /\ requests[i].phase = "done"
       /\ requests[i].caller = "saveConfig"
       /\ ~requests[i].ret[1].isValid

\* The code that tells the kind of a failed connection test.
ExpectedErrorCode(r) ==
  IF r.cause = "timeout" THEN "TIMEOUT"
  ELSE IF r.cause = "network" THEN "NETWORK_ERROR"
  ELSE IF r.status = 401 THEN "UNAUTHORIZED"
  ELSE IF r.status = 429 THEN "RATE_LIMITED"
  ELSE "CONNECTION_FAILED"

\* C17: testProviderConnection never rejects, and every failure carries the
\* code of its kind: UNAUTHORIZED for HTTP 401, RATE_LIMITED for HTTP 429,
\* CONNECTION_FAILED for any other non-OK status, TIMEOUT for an elapsed
\* timeout and NETWORK_ERROR for an unreachable network.
C17_FailureCodeIdentifiesKind ==
  \A i \in DOMAIN requests :
    (requests[i].fn = "testProviderConnection" /\ requests[i].phase = "done")
      => /\ requests[i].ret /= <<>>
         /\ requests[i].ret[1].isValid
              <=> (requests[i].cause = "response" /\ Ok(requests[i].status))
         /\ ~requests[i].ret[1].isValid
              => requests[i].ret[1].errorCode = <<ExpectedErrorCode(requests[i])>>

\* C18: fetchAllProvidersUsage returns a mapping with exactly one entry per
\* enabled config, keyed by the config's provider name and holding what the
\* fetch of that config returned, and no entry for a disabled config,
\* whatever the order in which the fetches complete (two configs of one
\* provider name included); a failed fetch leaves the other entries as
\* they are.
C18_OneEntryPerEnabledConfig ==
  (fanout.returned /\ fanout.configs /= <<>>)
    => /\ DOMAIN fanout.results =
            {fanout.configs[k].provider : k \in EnabledConfigs(fanout.configs)}
       /\ \A k \in EnabledConfigs(fanout.configs) :
            fanout.results[fanout.configs[k].provider]
              = requests[fanout.requestOf[k]].ret[1]

\* The call r has reported a failure to its caller.
ReportsFailure(r) ==
  CASE r.fn = "testProviderConnection" -> ~r.ret[1].isValid
    [] r.fn \in BodyReaders \cup {"fetchGenericUsage"} -> ~r.ret[1].success
    [] r.fn = "healthCheck" -> r.ret[1].status = "unhealthy"
    [] r.fn \in {"fetchUsage", "fetchModels"} -> r.ret[1].rejected

\* C19: every provider network call is bounded by its timeout: a call that
\* has not returned has its timer armed, so that it is never left pending,
\* and a call ended by its timeout has reported a failure to its caller,
\* never a success payload.
C19_TimeoutEndsCallWithFailure ==
  \A i \in DOMAIN requests :
    /\ requests[i].phase /= "done" => requests[i].timer
    /\ (requests[i].phase = "done" /\ requests[i].cause = "timeout")
         => ReportsFailure(requests[i])

\* C20: every NormalizedUsage record fetchUsage returns, from the response
\* or from the fallback taken when the request fails, has
\* totalTokens = inputTokens + outputTokens.
C20_TotalTokensIsSum ==
  \A i \in DOMAIN requests :
    (requests[i].fn = "fetchUsage" /\ requests[i].phase = "done")
      => \A k \in DOMAIN requests[i].ret[1].value :
           requests[i].ret[1].value[k].totalTokens
             = requests[i].ret[1].value[k].inputTokens
                 + requests[i].ret[1].value[k].outputTokens

(***************************************************************************)
(* Direct calls of the calculator's functions: the arguments of the call   *)
(* and what it returned are kept in lastOp.                                *)
(***************************************************************************)
BillingModes == {"daily", "monthly", "yearly", "one-time"}

\* Costs in thousandths: 0, 0.004, 1.005, 36.5, 100, 300.
CostSamples == {0, 4, 1005, 36500, 100000, 300000}

\* The call op(arg) of the calculator returned ret, or threw.
CalculatorReturn(op, arg, ret, thrown) ==
  /\ lastOp' = [op |-> op, arg |-> arg, hit |-> TRUE, ret |-> ret,
                writes |-> 0, recomputes |-> 0, thrown |-> thrown]
  /\ UNCHANGED <<sources, selectedSourceIds, defaultCurrency, costSummary,
                 persisted, nextId, clock, tz, calls, exported>>
  /\ UNCHANGED outsideStore

\* normalizeToDaily, normalizeToMonthly and normalizeToYearly of one cost.
NormalizeCost ==
  \E cost \in CostSamples, mode \in BillingModes :
    CalculatorReturn("normalize", [cost |-> cost, mode |-> mode],
                     [daily |-> normalizeToDaily(cost, mode),
                      monthly |-> normalizeToMonthly(cost, mode),
                      yearly |-> normalizeToYearly(cost, mode)],
                     FALSE)

\* Math.max(1, ...) of the months from start to end, both read with the
\* local getFullYear and getMonth.
TotalMonths(start, end, zone) ==
  LET n == (getFullYear(end, zone) - getFullYear(start, zone)) * 12
             + (getMonth(end, zone) - getMonth(start, zone)) + 1
  IN IF n > 1 THEN n ELSE 1

\* The result of calculateAmortizedCost, given totalMonths.
AmortizedOver(totalCost, months, total) ==
  [monthlyCost |-> roundCost(totalCost, IF total < months THEN total ELSE months),
   totalMonths |-> total,
   effectiveMonths |-> IF total < months THEN total ELSE months]

calculateAmortizedCost(totalCost, startDate, endDate, months, nowT, zone) ==
  AmortizedOver(totalCost, months,
                TotalMonths(parseDate(startDate, nowT),
                            IF endDate /= <<>> THEN parseDate(endDate, nowT) ELSE nowT,
                            zone))

AmortizeStarts == { <<2024, 1, 1>>, <<2024, 8, 1>>, <<2024, 12, 31>> }

AmortizeEnds == { <<>>, <<2024, 1, 1>>, <<2024, 12, 31>>, <<2025, 1, 1>> }

AmortizeMonths == {1, 6, 12, 24}

AmortizedCost ==
  \E totalCost \in {100000, 1200000}, startDate \in AmortizeStarts,
     endDate \in AmortizeEnds, months \in AmortizeMonths :
    CalculatorReturn("calculateAmortizedCost",
                     [totalCost |-> totalCost, startDate |-> startDate,
                      endDate |-> endDate, months |-> months],
                     calculateAmortizedCost(totalCost, startDate, endDate,
                                            months, Now, tz),
                     FALSE)

\* Sources for the trend: those of the store, one that starts after the
\* current month, one that ended on the first day of a month, and one
\* whose startDate is no date.
TrendInputs ==
  SourceInputs \cup
  { [name |-> <<"next">>, type |-> "api", provider |-> <<"openai">>,
     billingMode |-> "monthly", cost |-> 36500, currency |-> "USD",
     startDate |-> <<2025, 3, 1>>, endDate |-> <<>>, isEnabled |-> TRUE,
     description |-> <<>>],
    [name |-> <<"old">>, type |-> "api", provider |-> <<"anthropic">>,
     billingMode |-> "one-time", cost |-> 1005, currency |-> "USD",
     startDate |-> <<>>, endDate |-> <<2024, 12, 1>>, isEnabled |-> TRUE,
     description |-> <<>>],
    [name |-> <<"typo">>, type |-> "api", provider |-> <<"openai">>,
     billingMode |-> "monthly", cost |-> 300000, currency |-> "USD",
     startDate |-> <<"soon">>, endDate |-> <<>>, isEnabled |-> TRUE,
     description |-> <<>>] }

TrendSources ==
  { <<>> } \cup
  { <<Incoming(s, 1)>> : s \in TrendInputs } \cup
  { <<Incoming(s, 1), Incoming(CHOOSE g \in SourceInputs : g.name = <<"gpt">>, 2)>> :
      s \in TrendInputs }

\* The windows asked for: the default of 6 months, and one longer than a
\* year.
TrendWindows == {1, 3, TrendMonths, 13}

MonthlyTrend ==
  \E srcs \in TrendSources, months \in TrendWindows :
    CalculatorReturn("calculateMonthlyTrend",
                     [sources |-> srcs, months |-> months],
                     IF calculateMonthlyTrendThrows(srcs, months) THEN <<>>
                     ELSE calculateMonthlyTrend(srcs, months, Now, tz),
                     calculateMonthlyTrendThrows(srcs, months))

\* Sources for the summary: provider labels as the form's text field takes
\* them, among them labels that name members of Object.prototype.
SummaryInputs ==
  { [name |-> <<"a">>, type |-> "api", provider |-> <<"openai">>,
     billingMode |-> "daily", cost |-> 100000, currency |-> "USD",
     startDate |-> <<>>, endDate |-> <<>>, isEnabled |-> TRUE,
     description |-> <<>>],
    [name |-> <<"b">>, type |-> "api", provider |-> <<"anthropic">>,
     billingMode |-> "daily", cost |-> 50000, currency |-> "USD",
     startDate |-> <<>>, endDate |-> <<>>, isEnabled |-> TRUE,
     description |-> <<>>],
    [name |-> <<"c">>, type |-> "subscription", provider |-> <<"openai">>,
     billingMode |-> "monthly", cost |-> 100000, currency |-> "USD",
     startDate |-> <<>>, endDate |-> <<>>, isEnabled |-> TRUE,
     description |-> <<>>],
    [name |-> <<"d">>, type |-> "hardware", provider |-> <<>>,
     billingMode |-> "one-time", cost |-> 1005, currency |-> "CNY",
     startDate |-> <<>>, endDate |-> <<>>, isEnabled |-> TRUE,
     description |-> <<>>],
    [name |-> <<"e">>, type |-> "hardware", provider |-> <<"">>,
     billingMode |-> "yearly", cost |-> 100000, currency |-> "CNY",
     startDate |-> <<>>, endDate |-> <<>>, isEnabled |-> FALSE,
     description |-> <<>>],
    [name |-> <<"f">>, type |-> "api", provider |-> <<"constructor">>,
     billingMode |-> "daily", cost |-> 4, currency |-> "CNY",
     startDate |-> <<>>, endDate |-> <<>>, isEnabled |-> TRUE,
     description |-> <<>>],
    [name |-> <<"g">>, type |-> "api", provider |-> <<"__proto__">>,
     billingMode |-> "daily", cost |-> 4, currency |-> "CNY",
     startDate |-> <<>>, endDate |-> <<>>, isEnabled |-> TRUE,
     description |-> <<>>] }

SummarySources ==
  { <<>> } \cup
  { <<Incoming(s, 1)>> : s \in SummaryInputs } \cup
  { <<Incoming(s, 1), Incoming(t, 2)>> : s \in SummaryInputs, t \in SummaryInputs }

Summarize ==
  \E srcs \in SummarySources :
    CalculatorReturn("calculateSummary", [sources |-> srcs],
                     calculateSummary(srcs, Now, tz), FALSE)

NextCalculator ==
  \/ NormalizeCost
  \/ AmortizedCost
  \/ MonthlyTrend
  \/ Summarize
  \/ Tick

SpecCalculator == Init /\ [][NextCalculator]_vars

\* The value is a whole number of cents.
IsRounded(value) == value % 10 = 0

\* C21: for every cost and billing mode, normalizeToDaily returns cost for
\* daily and one-time, cost/30 for monthly and cost/365 for yearly, rounded
\* to 2 decimal places in all four modes; normalizeToMonthly and
\* normalizeToYearly are round2 of the daily cost times 30 and times 365,
\* so that 300 monthly gives 10.00 a day, 300.00 a month, 3650.00 a year.
C21_NormalizedCostsAreRounded ==
  lastOp.op = "normalize"
    => /\ lastOp.ret.daily =
            roundCost(lastOp.arg.cost,
                      CASE lastOp.arg.mode = "monthly" -> 30
                        [] lastOp.arg.mode = "yearly" -> 365
                        [] OTHER -> 1)
       /\ IsRounded(lastOp.ret.daily)
       /\ lastOp.ret.monthly = roundCost(lastOp.ret.daily * 30, 1)
       /\ lastOp.ret.yearly = roundCost(lastOp.ret.daily * 365, 1)
       /\ (lastOp.arg.cost = 300000 /\ lastOp.arg.mode = "monthly")
            => /\ lastOp.ret.daily = 10000
               /\ lastOp.ret.monthly = 300000
               /\ lastOp.ret.yearly = 3650000

\* The fields of a summary other than totalSourcesCount.
EnabledPart(summary) ==
  [k \in DOMAIN summary \ {"totalSourcesCount"} |-> summary[k]]

\* C22: the summary's totals, enabledSourcesCount, costByProvider,
\* costByType and monthlyTrend depend on the enabled sources only: when a
\* step adds, removes or edits disabled sources and leaves the enabled
\* ones as they are, the summaries of the collection before and after the
\* step differ at most in totalSourcesCount.
C22_SummaryDependsOnEnabledOnly ==
  [][(sources' /= sources /\ EnabledOf(sources') = EnabledOf(sources))
       => EnabledPart(calculateSummary(sources', Now, tz))
            = EnabledPart(calculateSummary(sources, Now, tz))]_vars

\* A disabled source has just been added behind an enabled one.
C22_Witness ==
  /\ lastOp.op = "addSource"
  /\ Len(sources) = 2
  /\ sources[1].isEnabled
  /\ ~sources[2].isEnabled
  /\ costSummary /= Null
  /\ costSummary[1].enabledSourcesCount = 1
  /\ costSummary[1].totalSourcesCount = 2

RECURSIVE SumOver(_, _)
\* The sum of the values f holds under the keys.
SumOver(f, keys) ==
  IF keys = {} THEN 0
  ELSE LET k == CHOOSE x \in keys : TRUE
       IN f[k] + SumOver(f, keys \ {k})

\* The daily costs of the enabled sources that satisfy Member.
DailyCostsOf(srcs, Member(_)) ==
  MapSeq(SelectSeq(EnabledOf(srcs), Member), DailyOf)

\* What GroupCost leaves under key is a number: under a key that names an
\* inherited member it is text.
HoldsNumber(key) == key \notin ObjectPrototypeKeys

\* C23: in every summary costByProvider has exactly one key per distinct
\* provider label among the enabled sources (a missing or empty provider
\* under "custom") and costByType one key per distinct type; each value is
\* the sum of its members' normalizeToDaily costs, and the values of each
\* grouping add up to the unrounded sum of the daily costs of all enabled
\* sources.
C23_GroupsPartitionDailyCost ==
  lastOp.op = "calculateSummary"
    => /\ DOMAIN lastOp.ret.costByProvider
            = {ProviderKey(s) : s \in Range(EnabledOf(lastOp.arg.sources))}
       /\ DOMAIN lastOp.ret.costByType
            = {s.type : s \in Range(EnabledOf(lastOp.arg.sources))}
       /\ \A p \in DOMAIN lastOp.ret.costByProvider :
            /\ HoldsNumber(p)
            /\ lastOp.ret.costByProvider[p]
                 = SumSeq(DailyCostsOf(lastOp.arg.sources,
                                       LAMBDA s : ProviderKey(s) = p))
       /\ \A t \in DOMAIN lastOp.ret.costByType :
            /\ HoldsNumber(t)
            /\ lastOp.ret.costByType[t]
                 = SumSeq(DailyCostsOf(lastOp.arg.sources, LAMBDA s : s.type = t))
       /\ SumOver(lastOp.ret.costByProvider, DOMAIN lastOp.ret.costByProvider)
            = SumSeq(DailyCostsOf(lastOp.arg.sources, LAMBDA s : TRUE))
       /\ SumOver(lastOp.ret.costByType, DOMAIN lastOp.ret.costByType)
            = SumSeq(DailyCostsOf(lastOp.arg.sources, LAMBDA s : TRUE))

\* The provider labels of the sources name no member of Object.prototype.
PlainLabels(srcs) ==
  \A k \in DOMAIN srcs : ProviderKey(srcs[k]) \notin ObjectPrototypeKeys

\* On provider labels that name no member of Object.prototype the groupings
\* are as C23 states.
PlainLabelsGroupExactly ==
  (lastOp.op = "calculateSummary" /\ ~PlainLabels(lastOp.arg.sources))
    \/ C23_GroupsPartitionDailyCost

\* The month that follows the month key <<year, month>>.
NextMonthKey(key) == IF key[2] = 12 THEN <<key[1] + 1, 1>> ELSE <<key[1], key[2] + 1>>

\* The trend holds `months` entries of consecutive calendar months, the
\* last one being the month nowT lies in, in local time.
WindowEndsNow(trend, months, nowT, zone) ==
  /\ Len(trend) = months
  /\ \A k \in 1..(Len(trend) - 1) : trend[k + 1].month = NextMonthKey(trend[k].month)
  /\ trend /= <<>>
       => trend[Len(trend)].month = <<getFullYear(nowT, zone), getMonth(nowT, zone) + 1>>

\* C24: calculateMonthlyTrend(sources, months) returns exactly `months`
\* entries whatever the sources are, one per calendar month keyed YYYY-MM,
\* consecutive and ascending also across a year boundary, the last entry
\* being the current calendar month.
C24_TrendHasMonthsEntries ==
  lastOp.op = "calculateMonthlyTrend"
    => /\ ~lastOp.thrown
       /\ WindowEndsNow(lastOp.ret, lastOp.arg.months, Now, tz)

\* Whenever calculateMonthlyTrend returns, its window is as C24 states.
ReturnedTrendHasMonthsEntries ==
  (lastOp.op = "calculateMonthlyTrend" /\ ~lastOp.thrown)
    => WindowEndsNow(lastOp.ret, lastOp.arg.months, Now, tz)

\* The source counts in the month key = <<year, month>> when dates are
\* compared as calendar days: the month's last day is on or after
\* startDate and its first day on or before endDate.
QualifiesByCalendarDay(source, key) ==
  /\ \/ source.startDate = <<>>
     \/ DayNumber(NextMonthKey(key)[1], NextMonthKey(key)[2], 1) - 1
          >= DayNumber(source.startDate[1], source.startDate[2], source.startDate[3])
  /\ \/ source.endDate = <<>>
     \/ DayNumber(key[1], key[2], 1)
          <= DayNumber(source.endDate[1], source.endDate[2], source.endDate[3])

\* C25: in calculateMonthlyTrend a source contributes
\* normalizeToMonthly(cost, billingMode) to a month's cost if and only if
\* its startDate is absent or on or before the month's last calendar day
\* and its endDate is absent or on or after the month's first calendar
\* day, compared as calendar days (a source that starts on the last day of
\* a month counts in that month), and each entry's cost is round2 of the
\* sum of its qualifying sources.
C25_SourceCountsInOverlappingMonths ==
  (lastOp.op = "calculateMonthlyTrend" /\ ~lastOp.thrown)
    => \A k \in DOMAIN lastOp.ret :
         lastOp.ret[k].cost =
           roundCost(SumSeq([i \in DOMAIN lastOp.arg.sources |->
                               IF QualifiesByCalendarDay(lastOp.arg.sources[i],
                                                         lastOp.ret[k].month)
                               THEN normalizeToMonthly(lastOp.arg.sources[i].cost,
                                                       lastOp.arg.sources[i].billingMode)
                               ELSE 0]), 1)

\* Where local time is UTC the months' costs are as C25 states.
TrendByCalendarDayInUTC == tz = 0 => C25_SourceCountsInOverlappingMonths

\* The months from startDate to endDate counted on the calendar dates
\* given (to the current local month when endDate is absent), at least 1.
CalendarMonths(startDate, endDate, nowT, zone) ==
  LET endYear == IF endDate = <<>> THEN getFullYear(nowT, zone) ELSE endDate[1]
      endMonth == IF endDate = <<>> THEN getMonth(nowT, zone) + 1 ELSE endDate[2]
      n == (endYear - startDate[1]) * 12 + (endMonth - startDate[2]) + 1
  IN IF n > 1 THEN n ELSE 1

\* C26: calculateAmortizedCost returns totalMonths = max(1, (endYear -
\* startYear) * 12 + (endMonth - startMonth) + 1) counted on the calendar
\* dates given, effectiveMonths = min(totalMonths, maxMonths) and
\* monthlyCost = round2(totalCost / effectiveMonths), so that (1200,
\* 2024-01-01, 2024-12-31, 12) gives 12, 12 and 100.00.
C26_AmortizedOverCalendarMonths ==
  lastOp.op = "calculateAmortizedCost"
    => /\ lastOp.ret.totalMonths
            = CalendarMonths(lastOp.arg.startDate, lastOp.arg.endDate, Now, tz)
       /\ lastOp.ret.effectiveMonths
            = (IF lastOp.ret.totalMonths < lastOp.arg.months
               THEN lastOp.ret.totalMonths ELSE lastOp.arg.months)
       /\ lastOp.ret.monthlyCost
            = roundCost(lastOp.arg.totalCost, lastOp.ret.effectiveMonths)
       /\ (/\ lastOp.arg.totalCost = 1200000
           /\ lastOp.arg.startDate = <<2024, 1, 1>>
           /\ lastOp.arg.endDate = <<2024, 12, 31>>
           /\ lastOp.arg.months = 12)
            => lastOp.ret = [monthlyCost |-> 100000, totalMonths |-> 12,
                             effectiveMonths |-> 12]

\* East of UTC and in UTC the amortization is as C26 states.
AmortizedByCalendarFromUTCEastward == tz >= 0 => C26_AmortizedOverCalendarMonths

\* The positions at which the collection after the step differs from the
\* collection before it.
ChangedRecords == {i \in DOMAIN sources : sources'[i] /= sources[i]}

\* What a step of addSource, updateSource or deleteSource does to the
\* collection, as C27 states it.
SingleRecordStep ==
  /\ lastOp'.op = "addSource"
       => /\ Len(sources') = Len(sources) + 1
          /\ SubSeq(sources', 1, Len(sources)) = sources
          /\ sources'[Len(sources')].createdAt = sources'[Len(sources')].updatedAt
          /\ lastOp'.ret = Some(sources'[Len(sources')].id)
  /\ lastOp'.op = "updateSource"
       => /\ Len(sources') = Len(sources)
          /\ Cardinality(ChangedRecords) <= 1
          /\ \A i \in ChangedRecords :
               /\ sources[i].id \in lastOp'.arg
               /\ sources'[i].updatedAt = Now
               /\ sources'[i].createdAt = sources[i].createdAt
  /\ lastOp'.op = "deleteSource"
       => /\ Len(sources') >= Len(sources) - 1
          /\ sources' = SelectSeq(sources, LAMBDA s : s.id \notin lastOp'.arg)

\* C27: single-record operations touch only their record: addSource
\* appends exactly one record at the end, with createdAt = updatedAt, and
\* returns its id; updateSource(id, fields) changes only the one record
\* with that id and refreshes its updatedAt; deleteSource(id) removes only
\* that one record; every other record keeps all its field values and the
\* remaining records keep their relative order.
C27_SingleRecordOperationsFrame == [][SingleRecordStep]_vars

\* While no two records share an id, the single-record operations are as
\* C27 states.
SingleRecordFrameOnUniqueIds ==
  [][(\A i, j \in DOMAIN sources : i /= j => sources[i].id /= sources[j].id)
       => SingleRecordStep]_vars

(***************************************************************************)
(* The calls of the registry.                                               *)
(***************************************************************************)
\* The call op(arg) of the registry ends as out tells.
RegistryCall(op, arg, out) ==
  /\ registry' = out.reg
  /\ lastOp' = [op |-> op, arg |-> arg, hit |-> FALSE, ret |-> out.ret,
                writes |-> 0, recomputes |-> 0, thrown |-> out.thrown]
  /\ UNCHANGED <<sources, selectedSourceIds, defaultCurrency, costSummary,
                 persisted, nextId, clock, tz, calls, exported, localStorage,
                 storageFault, providerConfig, requests, fanout, usageData>>

Register ==
  \E name \in RegistryNames :
    RegistryCall("register", [name |-> name], register(registry, name))

Unregister ==
  \E name \in RegistryNames :
    RegistryCall("unregister", [name |-> name], unregister(registry, name))

GetProvider ==
  \E name \in RegistryNames, apiKey \in RegistryApiKeys :
    RegistryCall("getProvider", [name |-> name, apiKey |-> apiKey],
                 getProvider(registry, name, apiKey))

SetDefaultProvider ==
  \E name \in RegistryNames :
    RegistryCall("setDefaultProvider", [name |-> name],
                 setDefaultProvider(registry, name))

Clear == RegistryCall("clear", <<>>, clear(registry))

NextRegistry ==
  \/ Register
  \/ Unregister
  \/ GetProvider
  \/ SetDefaultProvider
  \/ Clear

SpecRegistry == InitProvider /\ [][NextRegistry]_vars

\* C28: getProvider returns an instance only for a currently registered
\* name: once a name is unregistered, getProvider(name, apiKey) throws the
\* not-registered error for every apiKey, one for which an instance had
\* been cached before the unregister included.
C28_UnregisteredProviderThrows ==
  (lastOp.op = "getProvider" /\ lastOp.arg.name \notin Range(registry.providers))
    => lastOp.thrown

HookFetchUsage ==
  \E params \in UsageParamsInputs :
    LET begun == fetchUsageBegin(usageData, registry, localStorage, storageFault,
                                 params, Now)
    IN /\ calls < MaxCalls
       /\ begun.sent => Len(requests) < MaxRequests
       /\ usageData' = begun.u
       /\ registry' = begun.reg
       /\ IF begun.sent
          THEN /\ requests' =
                    Append(requests,
                           Spread(NewRequest("fetchUsage", "useUsageData", params),
                                  [overlapped |->
                                     \E j \in HookRequests :
                                       requests[j].phase /= "done"]))
               /\ UNCHANGED <<calls, lastOp>>
          ELSE /\ calls' = calls + 1
               /\ lastOp' = [op |-> "useUsageData.fetchUsage", arg |-> [request |-> 0],
                             hit |-> FALSE, ret |-> <<>>, writes |-> 0,
                             recomputes |-> 0, thrown |-> FALSE]
               /\ UNCHANGED requests
       /\ UNCHANGED <<sources, selectedSourceIds, defaultCurrency, costSummary,
                      persisted, nextId, clock, tz, exported, localStorage,
                      storageFault, providerConfig, fanout>>

RegisterOpenCode ==
  RegistryCall("register", [name |-> "opencode"], register(registry, "opencode"))

NextUsage ==
  \/ RegisterOpenCode
  \/ HookFetchUsage
  \/ ResponseArrives
  \/ BodyArrives
  \/ NetworkFails
  \/ TimerFires
  \/ Tick

SpecUsage == InitProvider /\ [][NextUsage]_vars

\* The latest call of the hook's fetchUsage that went to the provider.
LatestHookRequest == CHOOSE i \in HookRequests : \A j \in HookRequests : j <= i

\* C30: when two fetchUsage calls of the usage-data hook overlap, then
\* once both have completed the hook's data and the persisted
\* cost-tracker:usage copy are those of the most recently issued call,
\* in whichever order the two responses arrive.
C30_LatestCallWins ==
  (/\ lastOp.op = "useUsageData.fetchUsage"
   /\ lastOp.arg.request \in HookRequests
   /\ \A j \in HookRequests : requests[j].phase = "done"
   /\ \E j \in HookRequests : requests[j].overlapped)
    => /\ usageData.data = requests[LatestHookRequest].ret[1].value
       /\ localStorage[USAGE]
            = Some(JsonStringify(requests[LatestHookRequest].ret[1].value))

\* When the responses of two overlapping calls arrive in the order of the
\* calls, the data are those of the later call.
InOrderLatestCallWins ==
  (/\ lastOp.op = "useUsageData.fetchUsage"
   /\ lastOp.arg.request \in HookRequests
   /\ lastOp.arg.request = LatestHookRequest)
    => C30_LatestCallWins

====
